---- MODULE Spec2Model ----
(***************************************************************************)
(* AetherFlow: the run executor (runner.run_flow), the state store, the    *)
(* connector manager and the bundle synchronizer (bundles.sync_bundle).    *)
(***************************************************************************)
EXTENDS Integers, Sequences, FiniteSets, TLC

\* ------------------------------------------------------------------ bounds
NJobs == 2
NSteps == 2
MaxRuns == 2
NResources == 2
NFiles == 2
NContents == 2
MaxSyncs == 3
MaxChanges == 1
NOwners == 2
NKeys == 2
MaxTime == 3
MaxTtl == 2
NNames == 1
NThreads == 2
MaxInsts == 2
MaxParts == 2

Jobs == 1..NJobs
Steps == 1..NSteps
RunIds == {"r1"}
Resources == 1..NResources
Files == 1..NFiles
Contents == 1..NContents
Owners == 1..NOwners
Keys == 1..NKeys
Names == 1..NNames
Threads == 1..NThreads

\* ------------------------------------------------------- status constants
JOB_SUCCESS == "SUCCESS"
JOB_FAILED == "FAILED"
JOB_BLOCKED == "BLOCKED"
JOB_SKIPPED == "SKIPPED"
JOB_RUNNING == "RUNNING"
STEP_SUCCESS == "SUCCESS"
STEP_SKIPPED == "SKIPPED"
\* a status string outside the closed set, as a third-party step may return
STEP_OTHER == "PARTIAL"
\* absent row / absent dict key
None == "None"
DefaultSkipReason == "step requested skip_job"

VARIABLES
    \* the flow document (FlowSpec)
    flow,
    \* StateStore tables, keyed by run_id
    job_runs, step_runs,
    \* position of run_flow and its locals
    pc, run_id, flow_job, job, step,
    statuses, job_ctx, step_outputs, job_outputs,
    skip_rest, skip_reason, raw_out, raising,
    \* Connectors._run_cache (insertion order) and the connectors closed
    run_cache, closed,
    \* outcome of the last finished run and number of runs started
    result, runs,
    \* what the current run has done so far
    started, begun, ran, reran, job_writes, step_writes,
    opened, close_raised,
    \* workspace.cleanup_policy of the flow, and the jobs whose job
    \* directory work_root/flow_id/job_id/run_id exists
    cleanup_policy, job_dirs,
    \* per job the value its steps have promoted under this run_id, in this
    \* run or an earlier one (None: nothing promoted)
    promoted,
    \* the run_summary event of the current run: "none", "emitted", or
    \* "followed" once a job or step lifecycle event came after it
    summary

runnerVars == <<flow, job_runs, step_runs, pc, run_id, flow_job, job, step,
                statuses, job_ctx, step_outputs, job_outputs, skip_rest,
                skip_reason, raw_out, raising, run_cache, closed, result,
                runs, started, begun, ran, reran, job_writes, step_writes,
                opened, close_raised, cleanup_policy, job_dirs, promoted,
                summary>>

VARIABLES
    \* the remote bundle source: content of each file (0: no such file), the
    \* sha256 its listing advertises (<<>>: none), its size/mtime signature
    remote, adv, rsig,
    \* the bundle manifest: strict_fingerprint, fetch_policy, entry_flow
    manifest,
    \* <bundle_root>: cache/ (blob per sha256), active/, active.old/,
    \* staged/<tmp>/ of the latest sync, fingerprints/latest.json,
    \* fingerprints/<fp>.json, last_error.json written by the latest sync
    cache_dir, active_dir, old_dir, tmp_dir, latest, snapshots, last_error,
    \* position of sync_bundle, the allow_stale argument the latest failed
    \* sync was called with, and its locals
    bpc, allow_stale, metas, old_fp, old_map, new_fp, idx, file_sha, fetched,
    bresult,
    \* what the current sync found at its start, how far it got, and the
    \* numbers of syncs and remote changes so far
    active0, latest0, phase, syncs, changes,
    \* the number of the latest sync that was killed after active/ had been
    \* renamed to active.old and before active.old was deleted (0: none)
    swap_kill,
    \* the exception raised in the latest sync (None: none so far)
    error,
    \* whether the sync before the current one (at rest: the latest sync)
    \* returned a synchronized bundle, and the source as it listed it
    last_sync

bundleVars == <<remote, adv, rsig, manifest, cache_dir, active_dir, old_dir,
                tmp_dir, latest, snapshots, last_error, bpc, allow_stale,
                metas, old_fp, old_map, new_fp, idx, file_sha, fetched,
                bresult, active0, latest0, phase, syncs, changes, swap_kill,
                error, last_sync>>

VARIABLES
    \* the locks table of the state store: per key its row (owner,
    \* expires_at), and int(time.time())
    locks, clock,
    \* per owner: its position in acquire_lock, the key and the locals now
    \* and exp of the call, and what its latest acquire_lock returned
    lpc, lkey, lnow, lexp, lret,
    \* per owner and key: expires_at of the owner's latest successful
    \* acquisition, while it is neither released nor expired (0: none)
    grants

lockVars == <<locks, clock, lpc, lkey, lnow, lexp, lret, grants>>

VARIABLES
    \* Settings.connector_cache_disabled and connector_cache_default, and
    \* per resource name the cache it declares ("": none declared)
    settings, resources,
    \* Connectors._run_cache of the current run context, the module's
    \* _PROCESS_CACHE (per resource name an instance, 0: absent) and the
    \* thread inside _PROCESS_LOCK (0: free)
    mgr_run_cache, PROCESS_CACHE, PROCESS_LOCK,
    \* every instance REGISTRY.create has built, in order: the resource
    \* name, the branch of get that built it, the run, whether it is open
    insts,
    \* the number of the current run context
    conn_run,
    \* per thread: its position in get, the arguments name and cache, the
    \* local policy, and the instance its latest get returned (0: none)
    gpc, gname, gcache, gpol, gret

connVars == <<settings, resources, mgr_run_cache, PROCESS_CACHE, PROCESS_LOCK,
              insts, conn_run, gpc, gname, gcache, gpol, gret>>

VARIABLES
    \* the symbolic links of the file system, as pairs <<link, target>>
    symlinks,
    \* AETHERFLOW_STRICT_SANDBOX and AETHERFLOW_MODE_ENTERPRISE of ctx.env
    env_sandbox, env_enterprise,
    \* the argument of the latest _resolve_path, what it gave (a path, or
    \* the ValueError), and whether resolving it followed a symbolic link
    upath, resolved, followed

sandboxVars == <<symlinks, env_sandbox, env_enterprise, upath, resolved,
                 followed>>

VARIABLES
    \* AETHERFLOW_MODE of the process environment ("": not set), the mode of
    \* the bundle manifest ("none": no manifest, "": mode not given) and its
    \* zip_drivers
    os_mode, manifest_mode, zip_drivers,
    \* the one resource of the flow: kind, driver, the raw value at
    \* config.headers.Authorization and whether decode marks that path
    resource,
    \* the secrets module the settings name, and env.T ("": not set)
    set_envs, env_T,
    \* what validate_flow_yaml, resolve_resource and run_flow gave last
    report, res_out, flow_out

resolveVars == <<os_mode, manifest_mode, zip_drivers, resource, set_envs,
                 env_T, report, res_out, flow_out>>

VARIABLES
    \* per run (the owner of its locks): its position in a with_lock step,
    \* the lock_key of the step, whether the inner step of the latest
    \* with_lock ran, and how the latest with_lock ended
    wpc, wkey, winner, wres

wlVars == <<wpc, wkey, winner, wres>>

VARIABLES
    \* run_flow with a bundle manifest: the flow_yaml argument, the
    \* entry_flow of the manifest ("": empty), the flow files of the remote
    \* bundle and of the local bundle root, the position in run_flow, and
    \* the document validation read and the one the run loaded
    e_arg, e_entry, e_remote, e_local, epc, e_validated, e_loaded

entryVars == <<e_arg, e_entry, e_remote, e_local, epc, e_validated, e_loaded>>

VARIABLES
    \* an external.process step with idempotency strategy atomic_dir: its
    \* inputs idempotency.atomic_rename, retry.max_attempts and whether
    \* success.marker_file names a file of final_output_dir; per file of
    \* temp_output_dir and of final_output_dir the attempt that wrote it
    \* (0: no such file; Earlier: there before the step), final_output_dir
    \* as the step found it, the attempt, the position and the outcome
    atomic_rename, max_attempts, marker_file, tmp_out, final_out, final0,
    attempt, xpc, xresult

processVars == <<atomic_rename, max_attempts, marker_file, tmp_out, final_out,
                 final0, attempt, xpc, xresult>>

VARIABLES
    \* run_thread_pool: its arguments items, workers and fail_fast; the
    \* state of the future of each item ("pending", "running", "ok",
    \* "failed", "cancelled"); the futures as_completed has handed to the
    \* caller; results and errors; the position of the caller and what the
    \* call gave
    items, workers, fail_fast, futs, seen, results, pool_errors, ppc, pres

poolVars == <<items, workers, fail_fast, futs, seen, results, pool_errors, ppc,
              pres>>

auxVars == <<entryVars, processVars, poolVars>>

\* the StateStore calls leave the with_lock variables to their caller
vars == <<runnerVars, bundleVars, lockVars, connVars, sandboxVars, resolveVars,
          wlVars, auxVars>>
nonRunnerVars == <<bundleVars, lockVars, connVars, sandboxVars, resolveVars,
                   wlVars, auxVars>>
nonBundleVars == <<runnerVars, lockVars, connVars, sandboxVars, resolveVars,
                   wlVars, auxVars>>
nonLockVars == <<runnerVars, bundleVars, connVars, sandboxVars, resolveVars,
                 auxVars>>
nonConnVars == <<runnerVars, bundleVars, lockVars, sandboxVars, resolveVars,
                 wlVars, auxVars>>
nonSandboxVars == <<runnerVars, bundleVars, lockVars, connVars, resolveVars,
                    wlVars, auxVars>>
nonResolveVars == <<runnerVars, bundleVars, lockVars, connVars, sandboxVars,
                    wlVars, auxVars>>

nonEntryVars == <<runnerVars, bundleVars, lockVars, connVars, sandboxVars,
                  resolveVars, wlVars, processVars, poolVars>>
nonProcessVars == <<runnerVars, bundleVars, lockVars, connVars, sandboxVars,
                    resolveVars, wlVars, entryVars, poolVars>>
nonPoolVars == <<runnerVars, bundleVars, lockVars, connVars, sandboxVars,
                 resolveVars, wlVars, entryVars, processVars>>

\* ------------------------------------------------------------- flow model
\* A flow document.  when[j] = 0: no `when`; when[j] = d: the predicate
\* `jobs.<d>.outputs.has_data == true`.  outputs[j][s]: the step declares
\* outputs {has_data: "{{result.has_data}}"}.  bad_template: some step input
\* holds forbidden template syntax.  resources: the declared resources.
\* step_status: the status strings the StepResults of the flow's steps carry.
MkFlow(deps, w, sj, outs, bad, res, sts) ==
    [depends_on |-> [j \in Jobs |->
                       CASE deps = "chain" -> IF j = 1 THEN {} ELSE {j - 1}
                         [] deps = "forward" -> IF j = NJobs THEN {} ELSE {j + 1}
                         [] deps = "self" -> IF j = 1 THEN {1} ELSE {}
                         [] OTHER -> {}],
     when |-> [j \in Jobs |-> IF w /\ j > 1 THEN j - 1 ELSE 0],
     on_no_data |-> [j \in Jobs |-> [s \in Steps |-> IF s = sj THEN "skip_job" ELSE None]],
     outputs |-> [j \in Jobs |-> [s \in Steps |-> s = outs]],
     bad_template |-> bad,
     resources |-> res,
     step_status |-> sts]

ClosedStatuses == {STEP_SUCCESS, STEP_SKIPPED}

\* flows exercising gating, skipping and output promotion (no resources)
GateFlows ==
    {MkFlow(deps, w, sj, outs, FALSE, {}, ClosedStatuses) :
        deps \in {"none", "chain"}, w \in BOOLEAN, sj \in {0, 1}, outs \in {0, 1}}
\* flows the validator rejects
BadFlows ==
    {MkFlow("forward", FALSE, 0, 0, FALSE, {}, ClosedStatuses),
     MkFlow("none", FALSE, 0, 0, TRUE, {}, ClosedStatuses)}
\* plain flows whose steps use connectors
ConnFlows == {MkFlow("none", FALSE, 0, 0, FALSE, Resources, ClosedStatuses)}

\* a flow whose first job names itself in depends_on
SelfFlows == {MkFlow("self", FALSE, 0, 0, FALSE, {}, ClosedStatuses)}

FlowDocs == GateFlows \cup BadFlows \cup ConnFlows \cup SelfFlows

\* a flow document with the --flow-job argument its runs are given (0: none)
Scenarios ==
    (GateFlows \X (0..NJobs)) \cup (BadFlows \X {0}) \cup (ConnFlows \X {1})
    \cup (SelfFlows \X {0})

NoOut == [absent |-> TRUE]
NoCtx == [status |-> None]
NoRaw == [kind |-> None]

\* What Step.run() can do: return a plain dict, return a StepResult, raise.
Outcomes(f) ==
    {[kind |-> "dict", status |-> STEP_SUCCESS, has_data |-> None, reason |-> None],
     [kind |-> "raise", status |-> None, has_data |-> None, reason |-> None]}
    \cup {[kind |-> "result", status |-> STEP_SUCCESS, has_data |-> "true", reason |-> None]}
    \cup {[kind |-> "result", status |-> STEP_SKIPPED, has_data |-> "false",
           reason |-> "no data"],
          [kind |-> "result", status |-> STEP_SKIPPED, has_data |-> None,
           reason |-> None]}
    \cup [kind : {"result"}, status : f.step_status \ {STEP_SUCCESS, STEP_SKIPPED},
          has_data : {None}, reason : {None}]

\* StepResult.as_output / `raw_out or {}`
as_output(o) == [has_data |-> o.has_data, reason |-> o.reason, skipped |-> FALSE]

\* validation.validate_flow_dict + scan_runtime_templates: the error codes
ValidationErrors(f) ==
    {"semantic:depends_on_order" :
        j \in {j \in Jobs : \E d \in f.depends_on[j] \cap Jobs : d > j}}
    \cup {"semantic:depends_on_unknown_job" :
             j \in {j \in Jobs : \E d \in f.depends_on[j] : d \notin Jobs}}
    \cup {"template:syntax" : b \in {TRUE} \cap {f.bad_template}}

\* a validator whose verdict ignores the template scan
validate_semantic_only(f) ==
    [ok |-> ValidationErrors(f) \subseteq {"template:syntax"},
     errors |-> ValidationErrors(f)]

validate_flow_yaml(f) ==
    [ok |-> ValidationErrors(f) = {}, errors |-> ValidationErrors(f)]

\* runner._safe_eval_when on `jobs.<d>.outputs.has_data == true`
safe_eval_when(d, jc) ==
    IF d = 0 THEN "true"
    ELSE IF jc[d].status = None THEN "raise"
    ELSE IF jc[d].has_data = None THEN "raise"
    ELSE IF jc[d].has_data = "true" THEN "true" ELSE "false"

\* Connectors.get under cache policy run: reuse or create and remember
get(cache, r) == IF \E i \in 1..Len(cache) : cache[i] = r THEN cache ELSE Append(cache, r)

\* a close_all that lets the first raising close() end the loop
RECURSIVE close_until_raise(_, _)
close_until_raise(cache, bad) ==
    IF cache = <<>> THEN {}
    ELSE IF Head(cache) \in bad THEN {Head(cache)}
    ELSE {Head(cache)} \cup close_until_raise(Tail(cache), bad)

\* Connectors.close_all: close() is called on every cached connector, a
\* raising close() is logged and the loop goes on.  `bad` = connectors whose
\* close() raises.  Yields the set of connectors close() was called on.
RECURSIVE close_all(_, _)
close_all(cache, bad) ==
    IF cache = <<>> THEN {}
    ELSE {Head(cache)} \cup close_all(Tail(cache), bad)

EmptyJobRuns == [r \in RunIds |-> [j \in Jobs |-> None]]
EmptyStepRuns == [r \in RunIds |-> [j \in Jobs |-> [s \in Steps |-> None]]]

\* spec.CleanupPolicy
CleanupPolicies == {"on_success", "always", "never"}

\* log_event of a job or step lifecycle event, as the run_summary sees it
Emit(sm) == IF sm = "emitted" THEN "followed" ELSE sm

InitRunnerWith(S, P) ==
    /\ \E sc \in S : flow = sc[1] /\ flow_job = sc[2]
    /\ cleanup_policy \in P
    /\ job_dirs = {}
    /\ promoted = [j \in Jobs |-> None]
    /\ summary = "none"
    /\ job_runs = EmptyJobRuns
    /\ step_runs = EmptyStepRuns
    /\ pc = "idle"
    /\ run_id = "r1"
    /\ job = 1
    /\ step = 1
    /\ statuses = [j \in Jobs |-> None]
    /\ job_ctx = [j \in Jobs |-> NoCtx]
    /\ step_outputs = [s \in Steps |-> NoOut]
    /\ job_outputs = None
    /\ skip_rest = FALSE
    /\ skip_reason = None
    /\ raw_out = NoRaw
    /\ raising = FALSE
    /\ run_cache = <<>>
    /\ closed = {}
    /\ result = None
    /\ runs = 0
    /\ opened = {}
    /\ close_raised = {}
    /\ started = {}
    /\ begun = {}
    /\ ran = {}
    /\ reran = {}
    /\ job_writes = {}
    /\ step_writes = {}

\* WorkspaceSpec.cleanup_policy defaults to on_success (spec.py 19)
InitRunner(S) == InitRunnerWith(S, {"on_success"})

storeVars == <<job_runs, step_runs>>
jobLocals == <<step_outputs, job_outputs, skip_rest, skip_reason>>
histVars == <<started, begun, ran, reran, job_writes, step_writes, opened,
             close_raised>>

\* run_flow entry: validate, then set the run up (runner.py 275-424); the
\* caller passes the run_id of a new run or of the run it resumes
StartRun(r) ==
    /\ pc \in {"idle", "done"}
    /\ runs < MaxRuns
    /\ runs' = runs + 1
    /\ run_id' = r
    /\ opened' = {}
    /\ close_raised' = {}
    /\ job' = 1
    /\ step' = 1
    /\ statuses' = [j \in Jobs |-> None]
    /\ job_ctx' = [j \in Jobs |-> NoCtx]
    /\ step_outputs' = [s \in Steps |-> NoOut]
    /\ job_outputs' = None
    /\ skip_rest' = FALSE
    /\ skip_reason' = None
    /\ raw_out' = NoRaw
    /\ run_cache' = <<>>
    /\ closed' = {}
    /\ started' = {}
    /\ begun' = {}
    /\ ran' = {}
    /\ reran' = {}
    /\ job_writes' = {}
    /\ step_writes' = {}
    /\ IF validate_flow_yaml(flow).ok
       THEN /\ pc' = "jobs"
            /\ raising' = FALSE
            /\ result' = None
       ELSE /\ pc' = "done"
            /\ raising' = TRUE
            /\ result' = "raised"
    /\ UNCHANGED <<flow, flow_job, storeVars>>
    /\ summary' = "none"
    /\ UNCHANGED <<cleanup_policy, job_dirs, promoted>>
    /\ UNCHANGED nonRunnerVars

\* for job in spec.jobs: loop exhausted, obs.run_end (runner.py 564-568)
RunEnd ==
    /\ pc = "jobs"
    /\ job > NJobs
    /\ pc' = "finally"
    /\ UNCHANGED <<flow, storeVars, run_id, flow_job, job, step, statuses,
                   job_ctx, jobLocals, raw_out, raising, run_cache, closed,
                   result, runs, histVars>>
    /\ summary' = "emitted"
    /\ UNCHANGED <<cleanup_policy, job_dirs, promoted>>
    /\ UNCHANGED nonRunnerVars

\* if flow_job and job.id != flow_job: continue (runner.py 428-429)
JobFiltered ==
    /\ pc = "jobs"
    /\ job <= NJobs
    /\ flow_job # 0 /\ job # flow_job
    /\ job' = job + 1
    /\ UNCHANGED <<flow, storeVars, pc, run_id, flow_job, step, statuses,
                   job_ctx, jobLocals, raw_out, raising, run_cache, closed,
                   result, runs, histVars>>
    /\ UNCHANGED <<cleanup_policy, job_dirs, promoted, summary>>
    /\ UNCHANGED nonRunnerVars

\* a gate that only looks for failed dependencies
deps_not_failed(j, st) == \A d \in flow.depends_on[j] : st[d] # JOB_FAILED

\* all(statuses.get(dep) == JOB_SUCCESS for dep in job.depends_on)
deps_ok(j, st) == \A d \in flow.depends_on[j] : st[d] = JOB_SUCCESS

Reached == pc = "jobs" /\ job <= NJobs /\ (flow_job = 0 \/ job = flow_job)

\* depends_on gate fails: the job is BLOCKED (runner.py 431-438)
JobBlocked ==
    /\ Reached
    /\ flow.depends_on[job] # {} /\ ~deps_ok(job, statuses)
    /\ statuses' = [statuses EXCEPT ![job] = JOB_BLOCKED]
    /\ job_ctx' = [job_ctx EXCEPT ![job] =
                     [status |-> JOB_BLOCKED, has_data |-> None, skip_reason |-> None]]
    /\ job_runs' = [job_runs EXCEPT ![run_id][job] = JOB_BLOCKED]
    /\ job_writes' = job_writes \cup {job}
    /\ started' = started \cup {job}
    /\ job' = job + 1
    /\ UNCHANGED <<flow, step_runs, pc, run_id, flow_job, step, jobLocals,
                   raw_out, raising, run_cache, closed, result, runs,
                   opened, close_raised, begun, ran, reran, step_writes>>
    /\ UNCHANGED <<cleanup_policy, job_dirs, promoted, summary>>
    /\ UNCHANGED nonRunnerVars

Gated == Reached /\ (flow.depends_on[job] = {} \/ deps_ok(job, statuses))

\* job.when cannot be evaluated: ValueError out of the job loop (441-445)
JobWhenRaises ==
    /\ Gated
    /\ safe_eval_when(flow.when[job], job_ctx) = "raise"
    /\ started' = started \cup {job}
    /\ raising' = TRUE
    /\ pc' = "finally"
    /\ UNCHANGED <<flow, storeVars, run_id, flow_job, job, step, statuses,
                   job_ctx, jobLocals, raw_out, run_cache, closed, result,
                   runs, opened, close_raised, begun, ran, reran, job_writes, step_writes>>
    /\ UNCHANGED <<cleanup_policy, job_dirs, promoted, summary>>
    /\ UNCHANGED nonRunnerVars

\* a gate that treats a false job.when like a failed dependency
JobWhenFalseBlocked ==
    /\ Gated
    /\ safe_eval_when(flow.when[job], job_ctx) = "false"
    /\ statuses' = [statuses EXCEPT ![job] = JOB_BLOCKED]
    /\ job_ctx' = [job_ctx EXCEPT ![job] =
                     [status |-> JOB_BLOCKED, has_data |-> None,
                      skip_reason |-> None]]
    /\ job_runs' = [job_runs EXCEPT ![run_id][job] = JOB_BLOCKED]
    /\ job_writes' = job_writes \cup {job}
    /\ started' = started \cup {job}
    /\ job' = job + 1
    /\ UNCHANGED <<flow, step_runs, pc, run_id, flow_job, step, jobLocals,
                   raw_out, raising, run_cache, closed, result, runs,
                   opened, close_raised, begun, ran, reran, step_writes>>
    /\ UNCHANGED <<cleanup_policy, job_dirs, promoted, summary>>
    /\ UNCHANGED nonRunnerVars

\* job.when is false: the job is SKIPPED (runner.py 446-451)
JobWhenFalse ==
    /\ Gated
    /\ safe_eval_when(flow.when[job], job_ctx) = "false"
    /\ statuses' = [statuses EXCEPT ![job] = JOB_SKIPPED]
    /\ job_ctx' = [job_ctx EXCEPT ![job] =
                     [status |-> JOB_SKIPPED, has_data |-> None,
                      skip_reason |-> "condition=false"]]
    /\ job_runs' = [job_runs EXCEPT ![run_id][job] = JOB_SKIPPED]
    /\ job_writes' = job_writes \cup {job}
    /\ started' = started \cup {job}
    /\ job' = job + 1
    /\ UNCHANGED <<flow, step_runs, pc, run_id, flow_job, step, jobLocals,
                   raw_out, raising, run_cache, closed, result, runs,
                   opened, close_raised, begun, ran, reran, step_writes>>
    /\ UNCHANGED <<cleanup_policy, job_dirs, promoted, summary>>
    /\ UNCHANGED nonRunnerVars

\* the job starts: RUNNING, fresh step_outputs / job_outputs (453-471)
JobBegin ==
    /\ Gated
    /\ safe_eval_when(flow.when[job], job_ctx) = "true"
    /\ job_runs' = [job_runs EXCEPT ![run_id][job] = JOB_RUNNING]
    /\ job_writes' = job_writes \cup {job}
    /\ started' = started \cup {job}
    /\ begun' = begun \cup {job}
    /\ step_outputs' = [s \in Steps |-> NoOut]
    /\ job_outputs' = None
    /\ skip_rest' = FALSE
    /\ skip_reason' = None
    /\ step' = 1
    /\ pc' = "steps"
    /\ UNCHANGED <<flow, step_runs, run_id, flow_job, job, statuses, job_ctx,
                   raw_out, raising, run_cache, closed, result, runs,
                   opened, close_raised, ran, reran, step_writes>>
    /\ job_dirs' = job_dirs \cup {job}
    /\ summary' = Emit(summary)
    /\ UNCHANGED <<cleanup_policy, promoted>>
    /\ UNCHANGED nonRunnerVars

InStep == pc = "steps" /\ step <= NSteps

\* if skip_rest: mark SKIPPED, record the reason, continue (474-478)
StepSkipRest ==
    /\ InStep
    /\ skip_rest
    /\ step_runs' = [step_runs EXCEPT ![run_id][job][step] = STEP_SKIPPED]
    /\ step_writes' = step_writes \cup {<<job, step>>}
    /\ step_outputs' = [step_outputs EXCEPT ![step] =
                          [has_data |-> None, reason |-> skip_reason, skipped |-> TRUE]]
    /\ step' = step + 1
    /\ UNCHANGED <<flow, job_runs, pc, run_id, flow_job, job, statuses,
                   job_ctx, job_outputs, skip_rest, skip_reason, raw_out,
                   raising, run_cache, closed, result, runs, opened, close_raised, started, begun, ran, reran, job_writes>>
    /\ UNCHANGED <<cleanup_policy, job_dirs, promoted, summary>>
    /\ UNCHANGED nonRunnerVars

\* a resume check that forgets SKIPPED
resumable_success_only(prev) == prev = STEP_SUCCESS

\* prev in (STEP_SUCCESS, STEP_SKIPPED)
resumable(prev) == prev \in {STEP_SUCCESS, STEP_SKIPPED}

\* resume: the step is already done under this run_id, continue (480-483)
StepResume ==
    /\ InStep
    /\ ~skip_rest
    /\ resumable(step_runs[run_id][job][step])
    /\ step' = step + 1
    /\ UNCHANGED <<flow, storeVars, pc, run_id, flow_job, job, statuses,
                   job_ctx, jobLocals, raw_out, raising, run_cache, closed,
                   result, runs, histVars>>
    /\ UNCHANGED <<cleanup_policy, job_dirs, promoted, summary>>
    /\ UNCHANGED nonRunnerVars

\* the step is instantiated and run() is invoked; it may take a connector
\* (c # 0) from ctx.connectors on the way (runner.py 485-500)
StepRun(o, c) ==
    /\ InStep
    /\ ~skip_rest
    /\ ~resumable(step_runs[run_id][job][step])
    /\ ran' = ran \cup {<<job, step>>}
    /\ reran' = IF step_runs[run_id][job][step] \in {STEP_SUCCESS, STEP_SKIPPED}
                THEN reran \cup {<<job, step>>} ELSE reran
    /\ run_cache' = IF c = 0 THEN run_cache ELSE get(run_cache, c)
    /\ opened' = IF c = 0 THEN opened ELSE opened \cup {c}
    /\ IF o.kind = "raise"
       THEN pc' = "failed" /\ raw_out' = NoRaw
       ELSE pc' = "ran" /\ raw_out' = o
    /\ UNCHANGED <<flow, storeVars, run_id, flow_job, job, step, statuses,
                   job_ctx, jobLocals, raising, closed, result, runs, started,
                   begun, job_writes, step_writes, close_raised>>
    /\ summary' = Emit(summary)
    /\ UNCHANGED <<cleanup_policy, job_dirs, promoted>>
    /\ UNCHANGED nonRunnerVars

\* step_outputs[step.id] = out (runner.py 502-509)
RecordOutput ==
    /\ pc = "ran"
    /\ step_outputs' = [step_outputs EXCEPT ![step] = as_output(raw_out)]
    /\ pc' = "recorded"
    /\ UNCHANGED <<flow, storeVars, run_id, flow_job, job, step, statuses,
                   job_ctx, job_outputs, skip_rest, skip_reason, raw_out,
                   raising, run_cache, closed, result, runs, histVars>>
    /\ UNCHANGED <<cleanup_policy, job_dirs, promoted, summary>>
    /\ UNCHANGED nonRunnerVars

\* a runner that persists only SUCCESS
PersistSuccessOnly ==
    /\ pc = "recorded"
    /\ step_runs' = IF raw_out.status = STEP_SUCCESS
                    THEN [step_runs EXCEPT ![run_id][job][step] = raw_out.status]
                    ELSE step_runs
    /\ step_writes' = step_writes \cup {<<job, step>>}
    /\ pc' = "persisted"
    /\ UNCHANGED <<flow, job_runs, run_id, flow_job, job, step, statuses,
                   job_ctx, jobLocals, raw_out, raising, run_cache, closed,
                   result, runs, started, begun, ran, reran, job_writes,
                   opened, close_raised>>
    /\ UNCHANGED <<cleanup_policy, job_dirs, promoted, summary>>
    /\ UNCHANGED nonRunnerVars

\* ctx.state.set_step_status(job.id, run_id, step.id, step_status) (510)
PersistStatus ==
    /\ pc = "recorded"
    /\ step_runs' = [step_runs EXCEPT ![run_id][job][step] = raw_out.status]
    /\ step_writes' = step_writes \cup {<<job, step>>}
    /\ pc' = "persisted"
    /\ UNCHANGED <<flow, job_runs, run_id, flow_job, job, step, statuses,
                   job_ctx, jobLocals, raw_out, raising, run_cache, closed,
                   result, runs, opened, close_raised, started, begun, ran, reran,
                   job_writes>>
    /\ UNCHANGED <<cleanup_policy, job_dirs, promoted, summary>>
    /\ UNCHANGED nonRunnerVars

\* rendering step.outputs = {has_data: "{{result.has_data}}"} is strict
PromoteRaises == flow.outputs[job][step] /\ raw_out.has_data = None

\* promote declared outputs, then the skip_job short-circuit (513-534)
Promote ==
    /\ pc = "persisted"
    /\ IF PromoteRaises
       THEN /\ pc' = "failed"
            /\ UNCHANGED <<job_outputs, skip_rest, skip_reason, step>>
       ELSE /\ job_outputs' = IF flow.outputs[job][step] THEN raw_out.has_data
                              ELSE job_outputs
            /\ IF raw_out.status = STEP_SKIPPED /\ flow.on_no_data[job][step] = "skip_job"
               THEN /\ skip_rest' = TRUE
                    /\ skip_reason' = IF raw_out.reason # None THEN raw_out.reason
                                      ELSE DefaultSkipReason
               ELSE UNCHANGED <<skip_rest, skip_reason>>
            /\ step' = step + 1
            /\ pc' = "steps"
    /\ UNCHANGED <<flow, storeVars, run_id, flow_job, job, statuses, job_ctx,
                   step_outputs, raw_out, raising, run_cache, closed, result,
                   runs, histVars>>
    /\ promoted' = IF ~PromoteRaises /\ flow.outputs[job][step]
                   THEN [promoted EXCEPT ![job] = raw_out.has_data]
                   ELSE promoted
    /\ summary' = IF PromoteRaises THEN summary ELSE Emit(summary)
    /\ UNCHANGED <<cleanup_policy, job_dirs>>
    /\ UNCHANGED nonRunnerVars

\* a handler that cleans a failed job's directory under on_success too
cleanup_on_failure_too(pol) == pol \in {"on_success", "always"}

\* cleanup_policy == "always" (runner.py 560)
cleanup_on_failure(pol) == pol = "always"

\* pol in ("on_success", "always") (runner.py 550-551)
cleanup_on_end(pol) == pol \in {"on_success", "always"}

\* a job end that ignores the short-circuit flag
job_final_success(sr) == JOB_SUCCESS

\* the job's final status (runner.py 537)
job_final(sr) ==
    IF skip_rest /\ \A s \in Steps : sr[s] \in {STEP_SUCCESS, STEP_SKIPPED}
    THEN JOB_SKIPPED ELSE JOB_SUCCESS

\* all steps done: SKIPPED or SUCCESS, publish the job outputs; the job's
\* locals go out of use with the iteration (runner.py 536-553)
JobEnd ==
    /\ pc = "steps"
    /\ step > NSteps
    /\ LET st == job_final(step_runs[run_id][job]) IN
        /\ job_runs' = [job_runs EXCEPT ![run_id][job] = st]
        /\ statuses' = [statuses EXCEPT ![job] = st]
        /\ job_ctx' = [job_ctx EXCEPT ![job] =
                         [status |-> st, has_data |-> job_outputs,
                          skip_reason |-> IF st = JOB_SKIPPED THEN skip_reason ELSE None]]
    /\ job_writes' = job_writes \cup {job}
    /\ job' = job + 1
    /\ pc' = "jobs"
    /\ step_outputs' = [s \in Steps |-> NoOut]
    /\ job_outputs' = None
    /\ skip_rest' = FALSE
    /\ skip_reason' = None
    /\ raw_out' = NoRaw
    /\ UNCHANGED <<flow, step_runs, run_id, flow_job, step, raising, run_cache,
                   closed, result, runs, opened, close_raised, started, begun, ran,
                   reran, step_writes>>
    /\ job_dirs' = IF cleanup_on_end(cleanup_policy)
                   THEN job_dirs \ {job} ELSE job_dirs
    /\ summary' = Emit(summary)
    /\ UNCHANGED <<cleanup_policy, promoted>>
    /\ UNCHANGED nonRunnerVars

\* an exception handler that records FAILED and goes on with the next job
JobFailContinue ==
    /\ pc = "failed"
    /\ job_runs' = [job_runs EXCEPT ![run_id][job] = JOB_FAILED]
    /\ statuses' = [statuses EXCEPT ![job] = JOB_FAILED]
    /\ job_writes' = job_writes \cup {job}
    /\ job' = job + 1
    /\ pc' = "jobs"
    /\ UNCHANGED <<flow, step_runs, run_id, flow_job, step, job_ctx, jobLocals,
                   raw_out, raising, run_cache, closed, result, runs, started,
                   begun, ran, reran, step_writes, opened, close_raised>>
    /\ UNCHANGED <<cleanup_policy, job_dirs, promoted, summary>>
    /\ UNCHANGED nonRunnerVars

\* an exception handler that re-raises without recording the job status
JobFailUnrecorded ==
    /\ pc = "failed"
    /\ statuses' = [statuses EXCEPT ![job] = JOB_FAILED]
    /\ raising' = TRUE
    /\ pc' = "finally"
    /\ UNCHANGED <<flow, storeVars, run_id, flow_job, job, step, job_ctx,
                   jobLocals, raw_out, run_cache, closed, result, runs,
                   started, begun, ran, reran, job_writes, step_writes,
                   opened, close_raised>>
    /\ UNCHANGED <<cleanup_policy, job_dirs, promoted, summary>>
    /\ UNCHANGED nonRunnerVars

\* except Exception: the job is FAILED and the exception re-raised (554-562)
JobFail ==
    /\ pc = "failed"
    /\ job_runs' = [job_runs EXCEPT ![run_id][job] = JOB_FAILED]
    /\ statuses' = [statuses EXCEPT ![job] = JOB_FAILED]
    /\ job_writes' = job_writes \cup {job}
    /\ raising' = TRUE
    /\ pc' = "finally"
    /\ UNCHANGED <<flow, step_runs, run_id, flow_job, job, step, job_ctx,
                   jobLocals, raw_out, run_cache, closed, result, runs,
                   opened, close_raised, started, begun, ran, reran, step_writes>>
    /\ job_dirs' = IF cleanup_on_failure(cleanup_policy)
                   THEN job_dirs \ {job} ELSE job_dirs
    /\ summary' = Emit(summary)
    /\ UNCHANGED <<cleanup_policy, promoted>>
    /\ UNCHANGED nonRunnerVars

\* a run_flow without the finally: connectors are closed on success only
FinallyOnSuccess(bad) ==
    /\ pc = "finally"
    /\ closed' = IF raising THEN {} ELSE {run_cache[i] : i \in 1..Len(run_cache)}
    /\ close_raised' = closed' \cap bad
    /\ run_cache' = IF raising THEN run_cache ELSE <<>>
    /\ result' = IF raising THEN "raised" ELSE "returned"
    /\ pc' = "done"
    /\ UNCHANGED <<flow, storeVars, run_id, flow_job, job, step, statuses,
                   job_ctx, jobLocals, raw_out, raising, runs, started, begun,
                   ran, reran, job_writes, step_writes, opened>>
    /\ UNCHANGED <<cleanup_policy, job_dirs, promoted, summary>>
    /\ UNCHANGED nonRunnerVars

\* finally: ctx.connectors.close_all(), then return or propagate (569-575)
Finally(bad) ==
    /\ pc = "finally"
    /\ closed' = close_all(run_cache, bad)
    /\ close_raised' = closed' \cap bad
    /\ run_cache' = <<>>
    /\ result' = IF raising THEN "raised" ELSE "returned"
    /\ pc' = "done"
    /\ UNCHANGED <<flow, storeVars, run_id, flow_job, job, step, statuses,
                   job_ctx, jobLocals, raw_out, raising, runs, started, begun,
                   ran, reran, job_writes, step_writes, opened>>
    /\ UNCHANGED <<cleanup_policy, job_dirs, promoted, summary>>
    /\ UNCHANGED nonRunnerVars

\* the process is killed in the middle of a run: only the store survives
Kill ==
    /\ pc \notin {"idle", "done"}
    /\ pc' = "done"
    /\ result' = "killed"
    /\ job' = 1
    /\ step' = 1
    /\ statuses' = [j \in Jobs |-> None]
    /\ job_ctx' = [j \in Jobs |-> NoCtx]
    /\ step_outputs' = [s \in Steps |-> NoOut]
    /\ job_outputs' = None
    /\ skip_rest' = FALSE
    /\ skip_reason' = None
    /\ raw_out' = NoRaw
    /\ raising' = FALSE
    /\ run_cache' = <<>>
    /\ started' = {}
    /\ begun' = {}
    /\ ran' = {}
    /\ reran' = {}
    /\ job_writes' = {}
    /\ step_writes' = {}
    /\ opened' = {}
    /\ UNCHANGED <<flow, storeVars, run_id, flow_job, closed, close_raised, runs>>
    /\ UNCHANGED <<cleanup_policy, job_dirs, promoted, summary>>
    /\ UNCHANGED nonRunnerVars

\* -------------------------------------------------- bundle synchronizer
\* a blob whose write_bytes was cut short
Torn == 0 - 1
\* a directory that does not exist; a tree maps each rel_path to the content
\* of its file (0: no such file)
NoDir == <<>>
EmptyTree == [f \in Files |-> 0]
NoSha == <<>>
NoFp == <<>>

\* bundles._sha256_bytes: the digest names the content
sha256_bytes(b) == <<"sha256", b>>
Shas == {sha256_bytes(c) : c \in Contents}

NoMeta == [listed |-> FALSE, sha256 |-> NoSha, sig |-> 0]
NoPrev == [sha256 |-> NoSha, sig |-> 0]
NoSync == [ok |-> FALSE, remote |-> [f \in Files |-> 0],
           rsig |-> [f \in Files |-> 0]]
NoResult == [kind |-> None, changed |-> FALSE, fingerprint |-> NoFp, fetched |-> {}]

\* BundleSource.list_files: one RemoteFileMeta per remote file
list_files(r, a, g) ==
    [f \in Files |-> IF r[f] = 0 THEN NoMeta
                     ELSE [listed |-> TRUE, sha256 |-> a[f], sig |-> g[f]]]

\* bundles._fingerprint: per file its sha256 when there is one, else its
\* size and mtime
fingerprint(ms) ==
    <<"fp", [f \in Files |->
                IF ~ms[f].listed THEN <<>>
                ELSE IF ms[f].sha256 # NoSha THEN ms[f].sha256
                ELSE <<"sz_mt", ms[f].sig>>]>>

\* bundles._load_snapshot + _snapshot_file_map for fingerprint fp
snapshot_file_map(snaps, fp) ==
    IF \E sn \in snaps : sn.fingerprint = fp
    THEN (CHOOSE sn \in snaps : sn.fingerprint = fp).files
    ELSE [f \in Files |-> NoPrev]

\* the files a listing names, from position i on
Listed(ms, i) == {f \in Files : f >= i /\ ms[f].listed}
NextListed(ms, i) ==
    IF Listed(ms, i) = {} THEN NFiles + 1
    ELSE CHOOSE f \in Listed(ms, i) : \A g \in Listed(ms, i) : f <= g

\* remote sources: what they hold and what their listings advertise
Advertise(r, mode) ==
    [f \in Files |->
        IF r[f] = 0 \/ mode = "none" THEN NoSha
        ELSE IF mode = "wrong" /\ f = NFiles
             THEN sha256_bytes((r[f] % NContents) + 1)
        ELSE sha256_bytes(r[f])]

\* the sources a first sync may find: nothing, or every file (file f
\* holding content 1 + f % NContents)
Remotes == {EmptyTree, [f \in Files |-> 1 + (f % NContents)]}
\* the manifests: file 1 is the entry_flow
Manifests ==
    [strict_fingerprint : BOOLEAN, fetch_policy : {"cache_check"},
     entry_flow : {1}, advertise : {"none", "honest"}]
    \cup {[strict_fingerprint |-> FALSE, fetch_policy |-> "cache_check",
           entry_flow |-> 1, advertise |-> "wrong"],
          [strict_fingerprint |-> FALSE, fetch_policy |-> "always",
           entry_flow |-> 0, advertise |-> "none"]}

InitBundle(R, M) ==
    /\ remote \in R
    /\ manifest \in M
    /\ adv = Advertise(remote, manifest.advertise)
    /\ rsig = [f \in Files |-> 1]
    /\ cache_dir = [h \in Shas |-> 0]
    /\ active_dir = NoDir
    /\ old_dir = NoDir
    /\ tmp_dir = NoDir
    /\ latest = NoFp
    /\ snapshots = {}
    /\ last_error = FALSE
    /\ bpc = "idle"
    /\ allow_stale = FALSE
    /\ metas = [f \in Files |-> NoMeta]
    /\ old_fp = NoFp
    /\ old_map = [f \in Files |-> NoPrev]
    /\ new_fp = NoFp
    /\ idx = 1
    /\ file_sha = [f \in Files |-> NoSha]
    /\ fetched = {}
    /\ bresult = NoResult
    /\ active0 = NoDir
    /\ latest0 = NoFp
    /\ phase = "idle"
    /\ syncs = 0
    /\ changes = 0
    /\ swap_kill = 0
    /\ error = None
    /\ last_sync = NoSync

\* sync_bundle is left: its locals are gone; stale is the allow_stale
\* argument when the way out depended on it or passed it by
Leave(stale) ==
    /\ bpc' = "done"
    /\ allow_stale' = stale
    /\ metas' = [f \in Files |-> NoMeta]
    /\ old_fp' = NoFp
    /\ old_map' = [f \in Files |-> NoPrev]
    /\ new_fp' = NoFp
    /\ idx' = 1
    /\ file_sha' = [f \in Files |-> NoSha]
    /\ fetched' = {}

\* sync_bundle returns, or is killed
Return == Leave(FALSE)

diskVars == <<cache_dir, active_dir, old_dir, tmp_dir, latest, snapshots, last_error>>
remoteVars == <<remote, adv, rsig, manifest>>
syncLocals == <<allow_stale, metas, old_fp, old_map, new_fp, idx, file_sha, fetched>>

\* list_files raises: the exception leaves sync_bundle as it is (859),
\* whatever allow_stale was
SyncListFails(stale) ==
    /\ bpc \in {"idle", "done"}
    /\ syncs < MaxSyncs
    /\ syncs' = syncs + 1
    /\ bresult' = [NoResult EXCEPT !.kind = "raised"]
    /\ Leave(stale)
    /\ error' = "list"
    /\ active0' = active_dir
    /\ latest0' = latest
    /\ phase' = "listed"
    /\ tmp_dir' = NoDir
    /\ last_error' = FALSE
    /\ UNCHANGED <<remoteVars, cache_dir, active_dir, old_dir, latest,
                   snapshots, changes, swap_kill>>
    /\ last_sync' = NoSync
    /\ UNCHANGED nonBundleVars

\* sync_bundle entry: list the source, load the previous snapshot (742-864)
SyncStart ==
    /\ bpc \in {"idle", "done"}
    /\ syncs < MaxSyncs
    /\ syncs' = syncs + 1
    /\ allow_stale' = FALSE
    /\ metas' = list_files(remote, adv, rsig)
    /\ old_fp' = latest
    /\ old_map' = snapshot_file_map(snapshots, latest)
    /\ new_fp' = NoFp
    /\ idx' = NextListed(metas', 1)
    /\ file_sha' = [f \in Files |-> NoSha]
    /\ fetched' = {}
    /\ bresult' = NoResult
    /\ active0' = active_dir
    /\ latest0' = latest
    /\ phase' = "listed"
    /\ bpc' = IF manifest.strict_fingerprint /\ idx' <= NFiles
              THEN "enrich" ELSE "decide"
    /\ tmp_dir' = NoDir
    /\ last_error' = FALSE
    /\ error' = None
    /\ UNCHANGED <<remoteVars, cache_dir, active_dir, old_dir, latest,
                   snapshots, changes, swap_kill>>
    /\ UNCHANGED last_sync
    /\ UNCHANGED nonBundleVars

\* strict_fingerprint: hash every file whose listing has no sha256 and keep
\* its blob (889-902); a failed read is raised outside the try block
EnrichFile(readfail) ==
    /\ bpc = "enrich"
    /\ LET b == remote[idx]
           sha == sha256_bytes(b)
           nxt == NextListed(metas, idx + 1)
       IN  IF metas[idx].sha256 # NoSha
           THEN /\ ~readfail
                /\ idx' = IF nxt > NFiles THEN NextListed(metas, 1) ELSE nxt
                /\ bpc' = IF nxt > NFiles THEN "decide" ELSE "enrich"
                /\ UNCHANGED <<metas, cache_dir, bresult, allow_stale, old_fp,
                               old_map, new_fp, file_sha, fetched, error>>
           ELSE IF readfail
           THEN /\ \E stale \in BOOLEAN : Leave(stale)
                /\ bresult' = [NoResult EXCEPT !.kind = "raised"]
                /\ error' = "read"
                /\ UNCHANGED cache_dir
           ELSE /\ cache_dir' = IF cache_dir[sha] = 0
                                THEN [cache_dir EXCEPT ![sha] = b] ELSE cache_dir
                /\ metas' = [metas EXCEPT ![idx].sha256 = sha]
                /\ idx' = IF nxt > NFiles THEN NextListed(metas, 1) ELSE nxt
                /\ bpc' = IF nxt > NFiles THEN "decide" ELSE "enrich"
                /\ UNCHANGED <<bresult, allow_stale, old_fp, old_map, new_fp,
                               file_sha, fetched, error>>
    /\ UNCHANGED <<remoteVars, active_dir, old_dir, tmp_dir, latest, snapshots,
                   last_error, active0, latest0, phase, syncs, changes,
                   swap_kill>>
    /\ last_sync' = IF bpc' = "done" THEN NoSync ELSE last_sync
    /\ UNCHANGED nonBundleVars

\* a sync that stages and swaps whatever the fingerprint says
DecideRestage ==
    /\ bpc = "decide"
    /\ new_fp' = fingerprint(metas)
    /\ tmp_dir' = EmptyTree
    /\ idx' = NextListed(metas, 1)
    /\ phase' = "staging"
    /\ bpc' = IF idx' > NFiles THEN "entry" ELSE "stage"
    /\ UNCHANGED <<bresult, allow_stale, metas, old_fp, old_map, file_sha,
                   fetched>>
    /\ UNCHANGED <<remoteVars, cache_dir, active_dir, old_dir, latest, snapshots,
                   last_error, active0, latest0, syncs, changes, swap_kill,
                   error, last_sync>>
    /\ UNCHANGED nonBundleVars

\* new_fp; nothing changed: return; else mkdtemp under staged/ (903-920)
Decide ==
    /\ bpc = "decide"
    /\ IF manifest.fetch_policy # "always" /\ old_fp = fingerprint(metas)
          /\ active_dir # NoDir
       THEN /\ Return
            /\ bresult' = [kind |-> "returned", changed |-> FALSE,
                           fingerprint |-> fingerprint(metas), fetched |-> {}]
            /\ UNCHANGED <<tmp_dir, phase>>
       ELSE /\ new_fp' = fingerprint(metas)
            /\ tmp_dir' = EmptyTree
            /\ idx' = NextListed(metas, 1)
            /\ phase' = "staging"
            /\ bpc' = IF idx' > NFiles THEN "entry" ELSE "stage"
            /\ UNCHANGED <<bresult, allow_stale, metas, old_fp, old_map,
                           file_sha, fetched>>
    /\ UNCHANGED <<remoteVars, cache_dir, active_dir, old_dir, latest, snapshots,
                   last_error, active0, latest0, syncs, changes, swap_kill,
                   error>>
    /\ last_sync' = IF bpc' = "done"
                    THEN [ok |-> TRUE, remote |-> remote, rsig |-> rsig]
                    ELSE last_sync
    /\ UNCHANGED nonBundleVars

\* a staging that trusts no previous snapshot
StageNeverReuse == FALSE
\* staging of metas[idx]: the sha256 of the previous snapshot is reused when
\* size and mtime match and its blob is in the cache (945-949)
StageReuse ==
    /\ metas[idx].sha256 = NoSha
    /\ old_map[idx].sha256 # NoSha
    /\ old_map[idx].sig = metas[idx].sig
    /\ cache_dir[old_map[idx].sha256] # 0
\* the file has to be read from the source (931, 951)
StageFetch ==
    IF metas[idx].sha256 # NoSha THEN cache_dir[metas[idx].sha256] = 0
    ELSE ~StageReuse
\* the sha256 the file is materialized from
StageSha ==
    IF metas[idx].sha256 # NoSha THEN metas[idx].sha256
    ELSE IF StageReuse THEN old_map[idx].sha256
    ELSE sha256_bytes(remote[idx])
\* computed != sha (934)
StageMismatch ==
    metas[idx].sha256 # NoSha /\ sha256_bytes(remote[idx]) # metas[idx].sha256

\* one iteration of the staging loop: get the blob, copy it to tmp_dir/rel
\* (923-962)
StageFile(readfail) ==
    /\ bpc = "stage"
    /\ LET nxt == NextListed(metas, idx + 1) IN
       IF StageFetch /\ (readfail \/ StageMismatch)
       THEN /\ bpc' = "except"
            /\ error' = IF readfail THEN "read" ELSE "mismatch"
            /\ UNCHANGED <<cache_dir, tmp_dir, idx, file_sha, fetched>>
       ELSE /\ StageFetch \/ ~readfail
            /\ UNCHANGED error
            /\ cache_dir' = IF StageFetch /\ cache_dir[StageSha] = 0
                            THEN [cache_dir EXCEPT ![StageSha] = remote[idx]]
                            ELSE cache_dir
            /\ fetched' = IF StageFetch THEN fetched \cup {idx} ELSE fetched
            /\ file_sha' = [file_sha EXCEPT ![idx] = StageSha]
            /\ tmp_dir' = [tmp_dir EXCEPT ![idx] = cache_dir'[StageSha]]
            /\ idx' = nxt
            /\ bpc' = IF nxt > NFiles THEN "entry" ELSE "stage"
    /\ UNCHANGED <<remoteVars, active_dir, old_dir, latest, snapshots,
                   last_error, allow_stale, metas, old_fp, old_map, new_fp,
                   bresult, active0, latest0, phase, syncs, changes,
                   swap_kill>>
    /\ UNCHANGED last_sync
    /\ UNCHANGED nonBundleVars

\* the entry_flow must be in the staged tree (964-968)
CheckEntry ==
    /\ bpc = "entry"
    /\ bpc' = IF manifest.entry_flow # 0 /\ tmp_dir[manifest.entry_flow] = 0
              THEN "except"
              ELSE IF active_dir # NoDir THEN "rm_old" ELSE "promote_new"
    /\ error' = IF bpc' = "except" THEN "entry" ELSE error
    /\ UNCHANGED <<remoteVars, diskVars, syncLocals, bresult, active0, latest0,
                   phase, syncs, changes, swap_kill>>
    /\ UNCHANGED last_sync
    /\ UNCHANGED nonBundleVars

\* a swap that clears the way by removing active/ itself
SwapRmActive ==
    /\ bpc = "rm_old"
    /\ active_dir' = NoDir
    /\ bpc' = "rename_old"
    /\ UNCHANGED <<remoteVars, cache_dir, old_dir, tmp_dir, latest, snapshots,
                   last_error, syncLocals, bresult, active0, latest0, phase,
                   syncs, changes, swap_kill, error>>
    /\ UNCHANGED last_sync
    /\ UNCHANGED nonBundleVars

\* active/ exists: _rm_rf(active.old) (971-973)
SwapRmOld ==
    /\ bpc = "rm_old"
    /\ old_dir' = NoDir
    /\ bpc' = "rename_old"
    /\ UNCHANGED <<remoteVars, cache_dir, active_dir, tmp_dir, latest,
                   snapshots, last_error, syncLocals, bresult, active0,
                   latest0, phase, syncs, changes, swap_kill, error>>
    /\ UNCHANGED last_sync
    /\ UNCHANGED nonBundleVars

\* os.replace(active, active.old): the first rename of the swap (974)
SwapRenameOld ==
    /\ bpc = "rename_old"
    /\ old_dir' = active_dir
    /\ active_dir' = NoDir
    /\ phase' = "renamed"
    /\ bpc' = "promote"
    /\ UNCHANGED <<remoteVars, cache_dir, tmp_dir, latest, snapshots,
                   last_error, syncLocals, bresult, active0, latest0, syncs,
                   changes, swap_kill, error>>
    /\ UNCHANGED last_sync
    /\ UNCHANGED nonBundleVars

\* _atomic_replace_dir(tmp_dir, active_dir) (975, 978; 555-558)
SwapPromote ==
    /\ bpc \in {"promote", "promote_new"}
    /\ active_dir' = tmp_dir
    /\ tmp_dir' = NoDir
    /\ phase' = "renamed"
    /\ bpc' = IF bpc = "promote" THEN "rm_old2" ELSE "snapshot"
    /\ UNCHANGED <<remoteVars, cache_dir, old_dir, latest, snapshots,
                   last_error, syncLocals, bresult, active0, latest0, syncs,
                   changes, swap_kill, error>>
    /\ UNCHANGED last_sync
    /\ UNCHANGED nonBundleVars

\* _rm_rf(active.old) after the promotion (976)
SwapRmOld2 ==
    /\ bpc = "rm_old2"
    /\ old_dir' = NoDir
    /\ bpc' = "snapshot"
    /\ UNCHANGED <<remoteVars, cache_dir, active_dir, tmp_dir, latest,
                   snapshots, last_error, syncLocals, bresult, active0,
                   latest0, phase, syncs, changes, swap_kill, error>>
    /\ UNCHANGED last_sync
    /\ UNCHANGED nonBundleVars

\* os.replace of the swap or _write_latest_and_snapshot raises OSError
\* (974, 975, 978, 987): the except branch takes over; _rm_rf raises nothing
\* (561-570)
SwapFails ==
    /\ bpc \in {"rename_old", "promote", "promote_new", "snapshot", "latest"}
    /\ bpc' = "except"
    /\ error' = "os"
    /\ UNCHANGED <<remoteVars, diskVars, syncLocals, bresult, active0, latest0,
                   phase, syncs, changes, swap_kill>>
    /\ UNCHANGED last_sync
    /\ UNCHANGED nonBundleVars

\* the files of the snapshot: sha256 from the listing or from staging (980-985)
metas_snapshot ==
    [f \in Files |->
        IF ~metas[f].listed THEN NoPrev
        ELSE [sha256 |-> IF metas[f].sha256 # NoSha THEN metas[f].sha256
                         ELSE file_sha[f],
              sig |-> metas[f].sig]]

\* _write_latest_and_snapshot, first file: fingerprints/<fp>.json (510-544)
WriteSnapshot ==
    /\ bpc = "snapshot"
    /\ snapshots' = {sn \in snapshots : sn.fingerprint # new_fp}
                    \cup {[fingerprint |-> new_fp, files |-> metas_snapshot]}
    /\ bpc' = "latest"
    /\ UNCHANGED <<remoteVars, cache_dir, active_dir, old_dir, tmp_dir, latest,
                   last_error, syncLocals, bresult, active0, latest0, phase,
                   syncs, changes, swap_kill, error>>
    /\ UNCHANGED last_sync
    /\ UNCHANGED nonBundleVars

\* second file: fingerprints/latest.json; return changed=True (546-552,
\* 997-1005)
WriteLatest ==
    /\ bpc = "latest"
    /\ latest' = new_fp
    /\ bresult' = [kind |-> "returned", changed |-> TRUE,
                   fingerprint |-> new_fp, fetched |-> fetched]
    /\ phase' = "synced"
    /\ Return
    /\ UNCHANGED <<remoteVars, cache_dir, active_dir, old_dir, tmp_dir,
                   snapshots, last_error, active0, latest0, syncs, changes,
                   swap_kill, error>>
    /\ last_sync' = [ok |-> TRUE, remote |-> remote, rsig |-> rsig]
    /\ UNCHANGED nonBundleVars

\* an except branch that activates what was staged so far
SyncExceptPromote(stale) ==
    /\ bpc = "except"
    /\ last_error' = TRUE
    /\ active_dir' = IF tmp_dir # NoDir THEN tmp_dir ELSE active_dir
    /\ tmp_dir' = NoDir
    /\ bresult' = [NoResult EXCEPT !.kind = "raised"]
    /\ Leave(stale)
    /\ UNCHANGED <<remoteVars, cache_dir, old_dir, latest, snapshots, active0,
                   latest0, phase, syncs, changes, swap_kill, error>>
    /\ last_sync' = NoSync
    /\ UNCHANGED nonBundleVars

\* except Exception: last_error.json, _rm_rf(tmp_dir), then the stale bundle
\* or the exception (1006-1042); `stale` is the allow_stale argument of the
\* call, which nothing reads before this point
SyncExcept(stale) ==
    /\ bpc = "except"
    /\ last_error' = TRUE
    /\ tmp_dir' = NoDir
    /\ bresult' = IF stale /\ active_dir # NoDir
                  THEN [kind |-> "returned", changed |-> FALSE,
                        fingerprint |-> old_fp, fetched |-> {}]
                  ELSE [NoResult EXCEPT !.kind = "raised"]
    /\ bpc' = "done"
    /\ allow_stale' = stale
    /\ metas' = [f \in Files |-> NoMeta]
    /\ old_fp' = NoFp
    /\ old_map' = [f \in Files |-> NoPrev]
    /\ new_fp' = NoFp
    /\ idx' = 1
    /\ file_sha' = [f \in Files |-> NoSha]
    /\ fetched' = {}
    /\ UNCHANGED <<remoteVars, cache_dir, active_dir, old_dir, latest,
                   snapshots, active0, latest0, phase, syncs, changes,
                   swap_kill, error>>
    /\ last_sync' = NoSync
    /\ UNCHANGED nonBundleVars

\* the blob whose write_bytes is in progress in the current step, if any
PendingBlob ==
    IF bpc = "enrich" /\ metas[idx].sha256 = NoSha
          /\ cache_dir[sha256_bytes(remote[idx])] = 0
    THEN sha256_bytes(remote[idx])
    ELSE IF bpc = "stage" /\ StageFetch /\ ~StageMismatch /\ cache_dir[StageSha] = 0
    THEN StageSha
    ELSE NoSha

\* the process is killed in the middle of a sync: the disk stays as it is,
\* a blob that was being written stays cut short
BundleKill(torn) ==
    /\ bpc \notin {"idle", "done"}
    /\ torn => PendingBlob # NoSha
    /\ cache_dir' = IF torn THEN [cache_dir EXCEPT ![PendingBlob] = Torn]
                    ELSE cache_dir
    /\ Return
    /\ bresult' = [NoResult EXCEPT !.kind = "killed"]
    /\ swap_kill' = IF bpc \in {"promote", "rm_old2"} THEN syncs ELSE swap_kill
    /\ UNCHANGED <<remoteVars, active_dir, old_dir, tmp_dir, latest, snapshots,
                   last_error, active0, latest0, phase, syncs, changes,
                   error>>
    /\ last_sync' = NoSync
    /\ UNCHANGED nonBundleVars

\* between two syncs the source changes: file f gets content c (0: removed);
\* new content comes with a new mtime or (touch) with the size and mtime of
\* the old content
RemoteChange(f, c, touch) ==
    /\ bpc = "done"
    /\ syncs < MaxSyncs
    /\ changes < MaxChanges
    /\ remote[f] # c
    /\ touch => (remote[f] # 0 /\ c # 0)
    /\ changes' = changes + 1
    /\ remote' = [remote EXCEPT ![f] = c]
    /\ adv' = Advertise(remote', manifest.advertise)
    /\ rsig' = IF touch \/ c = 0 THEN rsig ELSE [rsig EXCEPT ![f] = rsig[f] + 1]
    /\ UNCHANGED <<manifest, diskVars, bpc, syncLocals, bresult, active0,
                   latest0, phase, syncs, swap_kill, error>>
    /\ UNCHANGED last_sync
    /\ UNCHANGED nonBundleVars

BundleNext ==
    \/ \E stale \in BOOLEAN : SyncListFails(stale)
    \/ SyncStart
    \/ \E readfail \in BOOLEAN : EnrichFile(readfail)
    \/ Decide
    \/ \E readfail \in BOOLEAN : StageFile(readfail)
    \/ CheckEntry
    \/ SwapRmOld
    \/ SwapRenameOld
    \/ SwapPromote
    \/ SwapRmOld2
    \/ SwapFails
    \/ WriteSnapshot
    \/ WriteLatest
    \/ \E stale \in BOOLEAN : SyncExcept(stale)
    \/ \E torn \in BOOLEAN : BundleKill(torn)
    \/ \E f \in Files, c \in 0..NContents, touch \in BOOLEAN : RemoteChange(f, c, touch)

RunnerNext ==
    \/ \E r \in RunIds : StartRun(r)
    \/ RunEnd
    \/ JobFiltered
    \/ JobBlocked
    \/ JobWhenRaises
    \/ JobWhenFalse
    \/ JobBegin
    \/ StepSkipRest
    \/ StepResume
    \/ \E o \in Outcomes(flow), c \in {0} \cup flow.resources : StepRun(o, c)
    \/ RecordOutput
    \/ PersistStatus
    \/ Promote
    \/ JobEnd
    \/ JobFail
    \/ \E bad \in SUBSET flow.resources : Finally(bad)
    \/ Kill

\* ------------------------------------------------- state store: TTL locks
NoRow == [owner |-> 0, expires_at |-> 0]

InitLocks ==
    /\ locks = [k \in Keys |-> NoRow]
    /\ clock = 0
    /\ lpc = [o \in Owners |-> "idle"]
    /\ lkey = [o \in Owners |-> 1]
    /\ lnow = [o \in Owners |-> 0]
    /\ lexp = [o \in Owners |-> 0]
    /\ lret = [o \in Owners |-> None]
    /\ grants = [o \in Owners |-> [k \in Keys |-> 0]]

\* acquire_lock(key, owner, ttl_seconds): now and exp (state.py 72-74)
AcquireBegin(o, k, ttl) ==
    /\ lpc[o] = "idle"
    /\ lpc' = [lpc EXCEPT ![o] = "sweep"]
    /\ lkey' = [lkey EXCEPT ![o] = k]
    /\ lnow' = [lnow EXCEPT ![o] = clock]
    /\ lexp' = [lexp EXCEPT ![o] = clock + ttl]
    /\ lret' = [lret EXCEPT ![o] = None]
    /\ UNCHANGED <<locks, clock, grants>>
    /\ UNCHANGED nonLockVars

\* DELETE FROM locks WHERE expires_at <= now: one autocommit statement (76)
AcquireSweep(o) ==
    /\ lpc[o] = "sweep"
    /\ locks' = [k \in Keys |->
                    IF locks[k] # NoRow /\ locks[k].expires_at <= lnow[o]
                    THEN NoRow ELSE locks[k]]
    /\ lpc' = [lpc EXCEPT ![o] = "insert"]
    /\ UNCHANGED <<clock, lkey, lnow, lexp, lret, grants>>
    /\ UNCHANGED nonLockVars

\* an insert that takes the key over: INSERT OR REPLACE
AcquireReplace(o) ==
    /\ lpc[o] = "insert"
    /\ locks' = [locks EXCEPT ![lkey[o]] =
                    [owner |-> o, expires_at |-> lexp[o]]]
    /\ lret' = [lret EXCEPT ![o] = "True"]
    /\ grants' = [grants EXCEPT ![o][lkey[o]] =
                     IF lexp[o] > clock THEN lexp[o] ELSE 0]
    /\ lpc' = [lpc EXCEPT ![o] = "idle"]
    /\ lnow' = [lnow EXCEPT ![o] = 0]
    /\ lexp' = [lexp EXCEPT ![o] = 0]
    /\ UNCHANGED <<clock, lkey>>
    /\ UNCHANGED nonLockVars

\* INSERT INTO locks: True, or False on the IntegrityError of the primary
\* key (77-81)
AcquireInsert(o) ==
    /\ lpc[o] = "insert"
    /\ IF locks[lkey[o]] = NoRow
       THEN /\ locks' = [locks EXCEPT ![lkey[o]] =
                            [owner |-> o, expires_at |-> lexp[o]]]
            /\ lret' = [lret EXCEPT ![o] = "True"]
            /\ grants' = [grants EXCEPT ![o][lkey[o]] =
                             IF lexp[o] > clock THEN lexp[o] ELSE 0]
       ELSE /\ lret' = [lret EXCEPT ![o] = "False"]
            /\ UNCHANGED <<locks, grants>>
    /\ lpc' = [lpc EXCEPT ![o] = "idle"]
    /\ lnow' = [lnow EXCEPT ![o] = 0]
    /\ lexp' = [lexp EXCEPT ![o] = 0]
    /\ UNCHANGED <<clock, lkey>>
    /\ UNCHANGED nonLockVars

\* release_lock(key, owner): DELETE FROM locks WHERE key=? AND owner=? (83-85)
ReleaseLock(o, k) ==
    /\ lpc[o] = "idle"
    /\ locks' = [locks EXCEPT ![k] = IF locks[k].owner = o THEN NoRow
                                     ELSE locks[k]]
    /\ grants' = [grants EXCEPT ![o][k] = 0]
    /\ UNCHANGED <<clock, lpc, lkey, lnow, lexp, lret>>
    /\ UNCHANGED nonLockVars

\* a second passes: acquisitions that expire are held no longer
Tick ==
    /\ clock < MaxTime
    /\ clock' = clock + 1
    /\ grants' = [o \in Owners |-> [k \in Keys |->
                     IF grants[o][k] > clock' THEN grants[o][k] ELSE 0]]
    /\ UNCHANGED <<locks, lpc, lkey, lnow, lexp, lret>>
    /\ UNCHANGED nonLockVars

LockNext ==
    /\ \/ \E o \in Owners, k \in Keys, ttl \in 1..MaxTtl : AcquireBegin(o, k, ttl)
       \/ \E o \in Owners : AcquireSweep(o)
       \/ \E o \in Owners : AcquireInsert(o)
       \/ \E o \in Owners, k \in Keys : ReleaseLock(o, k)
       \/ Tick
    /\ UNCHANGED wlVars

\* ------------------------------------------------------ with_lock step
\* builtins/steps.py 2000-2018: WithLock.run of the run o, the owner of its
\* locks (context.py 46-50)

WLAtRest ==
    /\ wpc = [o \in Owners |-> "out"]
    /\ wkey = [o \in Owners |-> 1]
    /\ winner = [o \in Owners |-> FALSE]
    /\ wres = [o \in Owners |-> None]

\* self.ctx.acquire_lock(key, ttl_seconds=ttl) is called (2009)
WLBegin(o, k, ttl) ==
    /\ wpc[o] = "out"
    /\ AcquireBegin(o, k, ttl)
    /\ wpc' = [wpc EXCEPT ![o] = "acquire"]
    /\ wkey' = [wkey EXCEPT ![o] = k]
    /\ winner' = [winner EXCEPT ![o] = FALSE]
    /\ wres' = [wres EXCEPT ![o] = None]

WLSweep(o) ==
    /\ wpc[o] = "acquire"
    /\ AcquireSweep(o)
    /\ UNCHANGED wlVars

\* acquire_lock returns: RuntimeError("Lock not acquired") on False, else
\* the try block is entered (2009-2011)
WLInsert(o) ==
    /\ wpc[o] = "acquire"
    /\ AcquireInsert(o)
    /\ IF lret'[o] = "True"
       THEN /\ wpc' = [wpc EXCEPT ![o] = "inner"]
            /\ UNCHANGED wres
       ELSE /\ wpc' = [wpc EXCEPT ![o] = "out"]
            /\ wres' = [wres EXCEPT ![o] = "not_acquired"]
    /\ UNCHANGED <<wkey, winner>>

\* an inner step whose exception leaves with_lock past its finally
WLInnerNoFinally(o, out) ==
    /\ wpc[o] = "inner"
    /\ winner' = [winner EXCEPT ![o] = TRUE]
    /\ wres' = [wres EXCEPT ![o] = out]
    /\ wpc' = [wpc EXCEPT ![o] = IF out = "raised" THEN "out" ELSE "finally"]
    /\ UNCHANGED wkey
    /\ UNCHANGED lockVars
    /\ UNCHANGED nonLockVars

\* inst.run() returns or raises; either way the finally follows (2012-2017)
WLInner(o, out) ==
    /\ wpc[o] = "inner"
    /\ winner' = [winner EXCEPT ![o] = TRUE]
    /\ wres' = [wres EXCEPT ![o] = out]
    /\ wpc' = [wpc EXCEPT ![o] = "finally"]
    /\ UNCHANGED wkey
    /\ UNCHANGED lockVars
    /\ UNCHANGED nonLockVars

\* finally: self.ctx.release_lock(key) (2017-2018)
WLRelease(o) ==
    /\ wpc[o] = "finally"
    /\ ReleaseLock(o, wkey[o])
    /\ wpc' = [wpc EXCEPT ![o] = "out"]
    /\ UNCHANGED <<wkey, winner, wres>>

WLTick ==
    /\ Tick
    /\ UNCHANGED wlVars

WLNext ==
    \/ \E o \in Owners, k \in Keys, ttl \in 1..MaxTtl : WLBegin(o, k, ttl)
    \/ \E o \in Owners : WLSweep(o)
    \/ \E o \in Owners : WLInsert(o)
    \/ \E o \in Owners, out \in {"returned", "raised"} : WLInner(o, out)
    \/ \E o \in Owners : WLRelease(o)
    \/ WLTick

\* ------------------------------------------------- connector manager
\* str.strip().lower() on the cache words that occur
Lower(w) == IF w = "NONE" THEN "none" ELSE w

\* what a caller passes as cache= (""; None or empty), what a resource
\* declares under "cache", and the values of connector_cache_default
PerCall == {"", "run", "process", "none", "NONE"}
Declared == {"", "run", "NONE"}
Defaults == {"", "process"}

\* the resolution order of the class docstring (36-41): the kill switch is
\* consulted after the cache the resource declares
policy_for_docstring(declared, cache) ==
    IF cache # "" THEN cache
    ELSE IF Lower(declared) # "" THEN Lower(declared)
    ELSE IF settings.connector_cache_disabled THEN "none"
    ELSE IF Lower(settings.connector_cache_default) # ""
         THEN Lower(settings.connector_cache_default)
    ELSE "run"

\* a resolution in which the cache the resource declares comes first
policy_for_declared_first(declared, cache) ==
    IF Lower(declared) # "" THEN Lower(declared)
    ELSE IF cache # "" THEN cache
    ELSE IF settings.connector_cache_disabled THEN "none"
    ELSE IF Lower(settings.connector_cache_default) # ""
         THEN Lower(settings.connector_cache_default)
    ELSE "run"

\* Connectors._policy_for(resource, cache) (53-61)
policy_for(declared, cache) ==
    IF cache # "" THEN cache
    ELSE IF settings.connector_cache_disabled THEN "none"
    ELSE IF Lower(declared) # "" THEN Lower(declared)
    ELSE IF Lower(settings.connector_cache_default) # ""
         THEN Lower(settings.connector_cache_default)
    ELSE "run"

\* REGISTRY.create(...): a new open instance, built by branch b of get
Create(n, b) == Append(insts, [name |-> n, branch |-> b, run |-> conn_run,
                               open |-> TRUE])

NoCache == [n \in Names |-> 0]

\* no get has been called: default settings, nothing declared
ConnAtRest ==
    /\ settings = [connector_cache_disabled |-> FALSE,
                   connector_cache_default |-> ""]
    /\ resources = [n \in Names |-> ""]
    /\ mgr_run_cache = NoCache
    /\ PROCESS_CACHE = NoCache
    /\ PROCESS_LOCK = 0
    /\ insts = <<>>
    /\ conn_run = 1
    /\ gpc = [t \in Threads |-> "idle"]
    /\ gname = [t \in Threads |-> 1]
    /\ gcache = [t \in Threads |-> ""]
    /\ gpol = [t \in Threads |-> ""]
    /\ gret = [t \in Threads |-> 0]

InitConn ==
    /\ settings \in [connector_cache_disabled : BOOLEAN,
                     connector_cache_default : Defaults]
    /\ resources \in [Names -> Declared]
    /\ mgr_run_cache = NoCache
    /\ PROCESS_CACHE = NoCache
    /\ PROCESS_LOCK = 0
    /\ insts = <<>>
    /\ conn_run = 1
    /\ gpc = [t \in Threads |-> "idle"]
    /\ gname = [t \in Threads |-> 1]
    /\ gcache = [t \in Threads |-> ""]
    /\ gpol = [t \in Threads |-> ""]
    /\ gret = [t \in Threads |-> 0]

\* get(kind, name, cache) returns instance i to thread t
GetReturn(t, i) ==
    /\ gret' = [gret EXCEPT ![t] = i]
    /\ gpc' = [gpc EXCEPT ![t] = "idle"]
    /\ gname' = [gname EXCEPT ![t] = 1]
    /\ gcache' = [gcache EXCEPT ![t] = ""]
    /\ gpol' = [gpol EXCEPT ![t] = ""]

\* get: the resource is looked up and the policy resolved (64-72)
GetResolve(t, n, c) ==
    /\ gpc[t] = "idle"
    /\ conn_run <= MaxRuns
    /\ Len(insts) < MaxInsts
    /\ gpc' = [gpc EXCEPT ![t] = "policy"]
    /\ gname' = [gname EXCEPT ![t] = n]
    /\ gcache' = [gcache EXCEPT ![t] = c]
    /\ gpol' = [gpol EXCEPT ![t] = policy_for(resources[n], c)]
    /\ gret' = [gret EXCEPT ![t] = 0]
    /\ UNCHANGED <<settings, resources, mgr_run_cache, PROCESS_CACHE,
                   PROCESS_LOCK, insts, conn_run>>
    /\ UNCHANGED nonConnVars

\* policy none: a new instance, remembered nowhere (74-82)
GetNone(t) ==
    /\ gpc[t] = "policy"
    /\ gpol[t] = "none"
    /\ insts' = Create(gname[t], "none")
    /\ GetReturn(t, Len(insts'))
    /\ UNCHANGED <<settings, resources, mgr_run_cache, PROCESS_CACHE,
                   PROCESS_LOCK, conn_run>>
    /\ UNCHANGED nonConnVars

\* a lock that does not exclude
LockFree == TRUE

\* threading.Lock: free when no thread is inside
LockIsFree == PROCESS_LOCK = 0

\* policy process: with _PROCESS_LOCK (84-85)
GetProcessLock(t) ==
    /\ gpc[t] = "policy"
    /\ gpol[t] = "process"
    /\ LockIsFree
    /\ PROCESS_LOCK' = t
    /\ gpc' = [gpc EXCEPT ![t] = "locked"]
    /\ UNCHANGED <<settings, resources, mgr_run_cache, PROCESS_CACHE, insts,
                   conn_run, gname, gcache, gpol, gret>>
    /\ UNCHANGED nonConnVars

\* if key in _PROCESS_CACHE: return it, leaving the lock (86-87)
GetProcessLookup(t) ==
    /\ gpc[t] = "locked"
    /\ IF PROCESS_CACHE[gname[t]] # 0
       THEN /\ GetReturn(t, PROCESS_CACHE[gname[t]])
            /\ PROCESS_LOCK' = 0
       ELSE /\ gpc' = [gpc EXCEPT ![t] = "create"]
            /\ UNCHANGED <<PROCESS_LOCK, gname, gcache, gpol, gret>>
    /\ UNCHANGED <<settings, resources, mgr_run_cache, PROCESS_CACHE, insts,
                   conn_run>>
    /\ UNCHANGED nonConnVars

\* create, store in _PROCESS_CACHE, return, leaving the lock (88-97)
GetProcessCreate(t) ==
    /\ gpc[t] = "create"
    /\ insts' = Create(gname[t], "process")
    /\ PROCESS_CACHE' = [PROCESS_CACHE EXCEPT ![gname[t]] = Len(insts')]
    /\ PROCESS_LOCK' = 0
    /\ GetReturn(t, Len(insts'))
    /\ UNCHANGED <<settings, resources, mgr_run_cache, conn_run>>
    /\ UNCHANGED nonConnVars

\* any other policy: if key in self._run_cache: return it (99-101)
GetRunLookup(t) ==
    /\ gpc[t] = "policy"
    /\ gpol[t] \notin {"none", "process"}
    /\ IF mgr_run_cache[gname[t]] # 0
       THEN GetReturn(t, mgr_run_cache[gname[t]])
       ELSE /\ gpc' = [gpc EXCEPT ![t] = "run_create"]
            /\ UNCHANGED <<gname, gcache, gpol, gret>>
    /\ UNCHANGED <<settings, resources, mgr_run_cache, PROCESS_CACHE,
                   PROCESS_LOCK, insts, conn_run>>
    /\ UNCHANGED nonConnVars

\* create, store in self._run_cache, return (102-111)
GetRunCreate(t) ==
    /\ gpc[t] = "run_create"
    /\ insts' = Create(gname[t], "run")
    /\ mgr_run_cache' = [mgr_run_cache EXCEPT ![gname[t]] = Len(insts')]
    /\ GetReturn(t, Len(insts'))
    /\ UNCHANGED <<settings, resources, PROCESS_CACHE, PROCESS_LOCK,
                   conn_run>>
    /\ UNCHANGED nonConnVars

\* the caller closes the instance its get returned
CallerClose(t) ==
    /\ gpc[t] = "idle"
    /\ gret[t] # 0
    /\ insts' = [insts EXCEPT ![gret[t]].open = FALSE]
    /\ gret' = [gret EXCEPT ![t] = 0]
    /\ UNCHANGED <<settings, resources, mgr_run_cache, PROCESS_CACHE,
                   PROCESS_LOCK, conn_run, gpc, gname, gcache, gpol>>
    /\ UNCHANGED nonConnVars

\* the run ends: close_all closes the instances of self._run_cache and
\* clears it (140-147); the next run context has a new Connectors
CloseAll ==
    /\ \A t \in Threads : gpc[t] = "idle"
    /\ conn_run <= MaxRuns
    /\ insts' = [i \in 1..Len(insts) |->
                    IF \E n \in Names : mgr_run_cache[n] = i
                    THEN [insts[i] EXCEPT !.open = FALSE] ELSE insts[i]]
    /\ mgr_run_cache' = NoCache
    /\ conn_run' = conn_run + 1
    /\ gret' = [t \in Threads |-> 0]
    /\ UNCHANGED <<settings, resources, PROCESS_CACHE, PROCESS_LOCK, gpc,
                   gname, gcache, gpol>>
    /\ UNCHANGED nonConnVars

ConnNext ==
    \/ \E t \in Threads, n \in Names, c \in PerCall : GetResolve(t, n, c)
    \/ \E t \in Threads : GetNone(t)
    \/ \E t \in Threads : GetProcessLock(t)
    \/ \E t \in Threads : GetProcessLookup(t)
    \/ \E t \in Threads : GetProcessCreate(t)
    \/ \E t \in Threads : GetRunLookup(t)
    \/ \E t \in Threads : GetRunCreate(t)
    \/ \E t \in Threads : CallerClose(t)
    \/ CloseAll

\* ------------------------------------------------- sandboxed user paths
\* absolute paths are sequences of segments, <<>> the file system root.
\* settings.work_root, and ctx.artifacts_dir(job_id) below it: the segment
WorkRoot == <<"work">>
\* work_root / flow_id / job_id / run_id / artifacts
ArtifactsDir == <<"work", "flow", "job", "run", "artifacts">>

\* the directories that exist
Dirs == {<<>>, WorkRoot, <<"work", "flow">>, <<"work", "flow", "job">>,
         <<"work", "flow", "job", "run">>, ArtifactsDir,
         ArtifactsDir \o <<"d">>, <<"work", "other">>, <<"etc">>}

\* where a step can have left a symbolic link, and where it can point: into
\* the artifacts directory, elsewhere under the work root, outside every
\* root, and nowhere
LinkAt == ArtifactsDir \o <<"l">>
LinkTargets == {ArtifactsDir \o <<"d">>, <<"work", "other">>, <<"etc">>,
                ArtifactsDir \o <<"gone">>}

\* the segments of the user paths tried, and the user paths
Segs == {"..", "l", "d", "etc"}
RECURSIVE SeqsUpTo(_)
SeqsUpTo(n) ==
    IF n = 0 THEN {<<>>}
    ELSE SeqsUpTo(n - 1) \cup
         {Append(q, g) : q \in {r \in SeqsUpTo(n - 1) : Len(r) = n - 1},
                         g \in Segs}
PasswdPath == [abs |-> FALSE, parts |-> <<"..", "..", "etc", "passwd">>]
UserPaths ==
    {[abs |-> FALSE, parts |-> q] : q \in SeqsUpTo(MaxParts) \ {<<>>}}
    \cup {PasswdPath}
    \cup {[abs |-> TRUE, parts |-> q] :
            q \in {<<"etc", "passwd">>, <<"work", "other">>,
                   LinkAt \o <<"f">>, ArtifactsDir \o <<"d", "f">>}}

IsLink(q) == \E e \in symlinks : e[1] = q
LinkTarget(q) == (CHOOSE e \in symlinks : e[1] = q)[2]

\* Path.exists(): follows a symbolic link
Exists(q) == IF IsLink(q) THEN LinkTarget(q) \in Dirs ELSE q \in Dirs

Parent(q) == IF q = <<>> THEN <<>> ELSE SubSeq(q, 1, Len(q) - 1)

\* Path.resolve() of the segments `parts` below the resolved path cur:
\* ".." goes to the parent, a symbolic link is replaced by its target
RECURSIVE PathResolve(_, _)
PathResolve(cur, parts) ==
    IF parts = <<>> THEN cur
    ELSE IF Head(parts) = ".." THEN PathResolve(Parent(cur), Tail(parts))
    ELSE IF IsLink(Append(cur, Head(parts)))
         THEN PathResolve(LinkTarget(Append(cur, Head(parts))), Tail(parts))
    ELSE PathResolve(Append(cur, Head(parts)), Tail(parts))

\* whether Path.resolve() of these segments comes across a symbolic link
RECURSIVE FollowsLink(_, _)
FollowsLink(cur, parts) ==
    IF parts = <<>> THEN FALSE
    ELSE IF Head(parts) = ".." THEN FollowsLink(Parent(cur), Tail(parts))
    ELSE IF IsLink(Append(cur, Head(parts))) THEN TRUE
    ELSE FollowsLink(Append(cur, Head(parts)), Tail(parts))

\* cand.relative_to(root) does not raise
relative_to(cand, root) ==
    Len(root) <= Len(cand) /\ SubSeq(cand, 1, Len(root)) = root

\* _reject_symlink_chain(root, cand) raises (32-64): cand is not under
\* root, or a segment from root to cand exists and is a symbolic link
reject_symlink_chain(root, cand) ==
    \/ ~relative_to(cand, root)
    \/ \E i \in (Len(root) + 1)..Len(cand) :
          Exists(SubSeq(cand, 1, i)) /\ IsLink(SubSeq(cand, 1, i))

\* the allowed roots when the file system root counts as one
allowed_roots_any == {<<>>}

\* _allowed_roots(ctx, job_id) (67-81)
allowed_roots == {r \in {WorkRoot, ArtifactsDir} : Exists(r)}

Raise == [kind |-> "raise", path |-> <<>>]
Resolved(q) == [kind |-> "path", path |-> q]
NoCall == [kind |-> "none", path |-> <<>>]

\* _resolve_path(ctx, job_id, p) (84-122)
resolve_path(p) ==
    LET cand == IF p.abs THEN PathResolve(<<>>, p.parts)
                ELSE PathResolve(ArtifactsDir, p.parts) IN
    IF ~env_sandbox THEN Resolved(cand)
    ELSE IF env_enterprise
         THEN IF ~relative_to(cand, ArtifactsDir) THEN Raise
              ELSE IF reject_symlink_chain(ArtifactsDir, cand) THEN Raise
              ELSE Resolved(cand)
    ELSE IF \E root \in allowed_roots :
               relative_to(cand, root) /\ ~reject_symlink_chain(root, cand)
         THEN Resolved(cand)
    ELSE Raise

SandboxAtRest ==
    /\ symlinks = {}
    /\ env_sandbox = TRUE
    /\ env_enterprise = FALSE
    /\ upath = PasswdPath
    /\ resolved = NoCall
    /\ followed = FALSE

InitSandbox ==
    /\ symlinks = {}
    /\ env_sandbox \in BOOLEAN
    /\ env_enterprise \in BOOLEAN
    /\ upath = PasswdPath
    /\ resolved = NoCall
    /\ followed = FALSE

\* a step, or what it unpacks, leaves a symbolic link in the artifacts
\* directory
MakeLink(t) ==
    /\ symlinks' = {<<LinkAt, t>>}
    /\ UNCHANGED <<env_sandbox, env_enterprise, upath, resolved, followed>>
    /\ UNCHANGED nonSandboxVars

RemoveLink ==
    /\ symlinks # {}
    /\ symlinks' = {}
    /\ UNCHANGED <<env_sandbox, env_enterprise, upath, resolved, followed>>
    /\ UNCHANGED nonSandboxVars

\* a step resolves the user path p
ResolvePath(p) ==
    /\ upath' = p
    /\ resolved' = resolve_path(p)
    /\ followed' = FollowsLink(IF p.abs THEN <<>> ELSE ArtifactsDir, p.parts)
    /\ UNCHANGED <<symlinks, env_sandbox, env_enterprise>>
    /\ UNCHANGED nonSandboxVars

SandboxNext ==
    \/ \E t \in LinkTargets : MakeLink(t)
    \/ RemoveLink
    \/ \E p \in UserPaths : ResolvePath(p)

\* ------------------------------------------- resource resolution model
\* resolution.py, validation.py, runner.py 223-255 and 264-404: one resource
\* with the value at config.headers.Authorization, validated, resolved and
\* materialized by a run.

\* the longest raw value, in pieces
MaxPieces == 2
MaxAttempts == 2
NTasks == 3
MaxWorkers == 2

UNSUPPORTED_MSG == "Unsupported templating syntax. Use {{VAR}} or {{VAR:DEFAULT}}"
DecodeTargetMsg ==
    "Decode target must be a standalone template token like '{{TOKEN}}' (no prefix/suffix)."

\* a raw value is a sequence of pieces: literal text, or the token {{env.T}}
Lit == <<"lit", "Bearer ">>
Tok == <<"tok", "env.T">>
RECURSIVE RawsUpTo(_)
RawsUpTo(n) ==
    IF n = 0 THEN {<<>>}
    ELSE RawsUpTo(n - 1) \cup
         {Append(q, g) : q \in {r \in RawsUpTo(n - 1) : Len(r) = n - 1},
                         g \in {Lit, Tok}}
RawValues == RawsUpTo(MaxPieces) \ {<<>>}

ResourceKinds == {<<"archive", "external">>, <<"archive", "zipfile">>,
                  <<"http", "requests">>}
ResourceSpecs ==
    {[kind |-> k[1], driver |-> k[2], raw |-> r, decode |-> d] :
        k \in ResourceKinds, r \in RawValues, d \in BOOLEAN}

\* BundleManifestSpec.zip_drivers: its default, and one that lists external
ZipDrivers == {{"pyzipper", "zipfile"}, {"pyzipper", "zipfile", "external"}}

\* the secrets module configured: none, one with expand_env and decode, one
\* without decode, one without expand_env
SetEnvs == {"none", "full", "no_decode", "no_expand"}

\* "{{" in raw_val or "}}" in raw_val
HasTemplate(raw) == \E i \in 1..Len(raw) : raw[i][1] = "tok"

\* the standalone test that takes every templated value for a token
is_standalone_token_any(raw) == HasTemplate(raw)

\* _is_standalone_token(value) (203-205)
is_standalone_token(raw) == Len(raw) = 1 /\ raw[1][1] = "tok"

\* _render_string: ResolverMissingKeyError when a token's key is not set
RenderRaises(raw) == HasTemplate(raw) /\ env_T = ""

\* _render_string_or_typed of a value whose keys are set: every token is
\* replaced by its value, literal text stays
Render(raw) ==
    [dec |-> FALSE,
     text |-> [i \in 1..Len(raw) |->
                  IF raw[i][1] = "tok" THEN env_T ELSE raw[i][2]]]

\* the decode hook of the secrets module: opaque, marks the value decoded
decode_fn(v) == [dec |-> TRUE, text |-> v.text]

NoValue == [dec |-> FALSE, text |-> <<>>]
NoOutcome ==
    [kind |-> "none", exc |-> "", msg |-> <<>>, value |-> NoValue,
     warned |-> FALSE]
Raised(e, m) ==
    [kind |-> "raise", exc |-> e, msg |-> m, value |-> NoValue,
     warned |-> FALSE]
Returned(v, w) ==
    [kind |-> "ok", exc |-> "", msg |-> <<>>, value |-> v, warned |-> w]

\* resolve_resource(resource_dict, env, set_envs_module) (125-188)
resolve_resource(r, mod) ==
    IF mod \in {"no_decode", "no_expand"}
    THEN Raised("RuntimeError",
                <<"set_envs_module must define callable expand_env and decode">>)
    ELSE IF RenderRaises(r.raw)
    THEN Raised("ResolverMissingKeyError", <<"env.T">>)
    ELSE IF ~r.decode THEN Returned(Render(r.raw), FALSE)
    ELSE IF mod = "none" THEN Returned(Render(r.raw), TRUE)
    ELSE IF HasTemplate(r.raw) /\ ~is_standalone_token(r.raw)
    THEN Raised("ResolverSyntaxError", <<UNSUPPORTED_MSG, "detail">>)
    ELSE Returned(decode_fn(Render(r.raw)), FALSE)

\* env.get("AETHERFLOW_MODE", "internal_fast"), mf.get("mode") or
\* "internal_fast"
mode_of(v) == IF v = "" THEN "internal_fast" ELSE v

\* the archive allowlist: the manifest's zip_drivers, {} without a manifest
\* (env_snapshot.py 53, 111; runner.py 301, 357)
archive_allowlist == IF manifest_mode = "none" THEN {} ELSE zip_drivers

\* the enterprise archive policy (validation.py 540-549, runner.py 232)
ArchiveDenied(mode) ==
    /\ mode = "enterprise"
    /\ resource.kind = "archive"
    /\ resource.driver \notin archive_allowlist

\* the mode validation sees: build_env_snapshot puts no AETHERFLOW_MODE in
\* the snapshot, so it is that of the process environment
validation_mode == mode_of(os_mode)

\* the mode a run sees (runner.py 309-312)
run_mode ==
    IF manifest_mode = "none" THEN mode_of(os_mode) ELSE mode_of(manifest_mode)

NoReport ==
    [kind |-> "none", exc |-> "", msg |-> <<>>, errors |-> <<>>,
     warnings |-> <<>>]

\* validate_flow_yaml (634-705) with AETHERFLOW_VALIDATE_ENV_STRICT unset:
\* load_secrets_provider, validate_flow_dict, scan_runtime_templates
validate_flow_report ==
    IF set_envs = "no_decode"
    THEN [kind |-> "raise", exc |-> "TypeError",
          msg |-> <<"Secrets module must define callable decode(value: str) -> str">>,
          errors |-> <<>>, warnings |-> <<>>]
    ELSE [kind |-> "report", exc |-> "", msg |-> <<>>,
          errors |->
              (IF ArchiveDenied(validation_mode)
               THEN <<[code |-> "semantic:enterprise_archive_driver",
                       msg |-> <<"Enterprise mode requires archive driver">>]>>
               ELSE <<>>)
              \o
              (IF /\ resource.decode
                  /\ HasTemplate(resource.raw)
                  /\ ~is_standalone_token(resource.raw)
               THEN <<[code |-> "template:syntax",
                       msg |-> <<DecodeTargetMsg>>]>>
               ELSE <<>>),
          warnings |->
              IF RenderRaises(resource.raw)
              THEN <<[code |-> "semantic:missing_env",
                      msg |-> <<"Missing env env.T">>]>>
              ELSE <<>>]

\* run_flow up to the job loop (264-404): validation, then the resources
\* are built; kind "started" when the job loop is reached
run_flow ==
    LET rep == validate_flow_report IN
    IF rep.kind = "raise" THEN Raised(rep.exc, rep.msg)
    ELSE IF rep.errors # <<>> THEN Raised("SpecError", rep.errors[1].msg)
    ELSE IF ArchiveDenied(run_mode)
    THEN Raised("ValueError", <<"Enterprise mode requires driver in allowlist">>)
    ELSE LET o == resolve_resource(resource, set_envs) IN
         IF o.kind = "raise" THEN o ELSE [o EXCEPT !.kind = "started"]

ResolveAtRest ==
    /\ os_mode = ""
    /\ manifest_mode = "none"
    /\ zip_drivers = {"pyzipper", "zipfile"}
    /\ resource = [kind |-> "http", driver |-> "requests", raw |-> <<Lit>>,
                   decode |-> FALSE]
    /\ set_envs = "none"
    /\ env_T = ""
    /\ report = NoReport
    /\ res_out = NoOutcome
    /\ flow_out = NoOutcome

InitResolve ==
    /\ os_mode \in {"", "enterprise"}
    /\ manifest_mode \in {"none", "", "internal_fast", "enterprise"}
    /\ zip_drivers \in ZipDrivers
    /\ resource \in ResourceSpecs
    /\ set_envs \in SetEnvs
    /\ env_T \in {"", "abc"}
    /\ report = NoReport
    /\ res_out = NoOutcome
    /\ flow_out = NoOutcome

\* aetherflow validate
Validate ==
    /\ report' = validate_flow_report
    /\ UNCHANGED <<os_mode, manifest_mode, zip_drivers, resource, set_envs,
                   env_T, res_out, flow_out>>
    /\ UNCHANGED nonResolveVars

\* a call of resolve_resource on the resource
ResolveResource ==
    /\ res_out' = resolve_resource(resource, set_envs)
    /\ UNCHANGED <<os_mode, manifest_mode, zip_drivers, resource, set_envs,
                   env_T, report, flow_out>>
    /\ UNCHANGED nonResolveVars

\* aetherflow run
RunFlow ==
    /\ report' = validate_flow_report
    /\ flow_out' = run_flow
    /\ UNCHANGED <<os_mode, manifest_mode, zip_drivers, resource, set_envs,
                   env_T, res_out>>
    /\ UNCHANGED nonResolveVars

ResolveNext ==
    \/ Validate
    \/ ResolveResource
    \/ RunFlow

\* the run executor, with the bundle synchronizer at rest
\* --------------------------------------------- validated and loaded flow
\* run_flow (runner.py 264-365) with a bundle manifest and a relative
\* flow_yaml: validate_flow_yaml syncs the bundle and reads flow_yaml below
\* the bundle root (validation.py 650-665); run_flow then syncs again and
\* loads entry_flow when the manifest names one (runner.py 303-365)

FlowNames == {"a.yaml", "b.yaml"}
NoDoc == <<>>
Doc(n, c) == <<n, c>>

EntryAtRest ==
    /\ e_arg = "a.yaml"
    /\ e_entry = ""
    /\ e_remote = [n \in FlowNames |-> 1]
    /\ e_local = [n \in FlowNames |-> 1]
    /\ epc = "done"
    /\ e_validated = NoDoc
    /\ e_loaded = NoDoc

\* --------------------------------------------------- external.process
\* builtins/steps.py 2447-2634: ExternalProcess.run with strategy atomic_dir

Earlier == 0 - 1
Attempts == 1..MaxAttempts
EmptyDir == [f \in Files |-> 0]

ProcessAtRest ==
    /\ atomic_rename = TRUE
    /\ max_attempts = 1
    /\ marker_file = FALSE
    /\ tmp_out = EmptyDir
    /\ final_out = EmptyDir
    /\ final0 = EmptyDir
    /\ attempt = 1
    /\ xpc = "done"
    /\ xresult = None

\* ------------------------------------------------------ run_thread_pool
\* concurrency.py 10-36: the caller submits fn(item) for every item to a
\* ThreadPoolExecutor of max(1, workers) threads, takes the futures as they
\* complete, and leaves the `with` block, which waits for the running tasks

Tasks == 1..NTasks
\* what fn gives for an item, and the None of a result not yet stored
fn(item) == <<"out", item>>
NotStored == <<>>

PoolAtRest ==
    /\ items = [t \in Tasks |-> 1]
    /\ workers = 1
    /\ fail_fast = TRUE
    /\ futs = [t \in Tasks |-> "ok"]
    /\ seen = Tasks
    /\ results = [t \in Tasks |-> fn(1)]
    /\ pool_errors = <<>>
    /\ ppc = "done"
    /\ pres = [kind |-> "returned", value |-> [t \in Tasks |-> fn(1)]]

AuxAtRest == EntryAtRest /\ ProcessAtRest /\ PoolAtRest

\* 15-19: results = [None] * len(items), errors = [], every item submitted
InitPool ==
    /\ items \in [Tasks -> Contents]
    /\ workers \in 1..MaxWorkers
    /\ fail_fast \in BOOLEAN
    /\ futs = [t \in Tasks |-> "pending"]
    /\ seen = {}
    /\ results = [t \in Tasks |-> NotStored]
    /\ pool_errors = <<>>
    /\ ppc = "collect"
    /\ pres = [kind |-> "none", value |-> <<>>]

\* a free thread of the executor takes the first work item of its queue
TaskStart(t) ==
    /\ ppc \in {"collect", "exit"}
    /\ futs[t] = "pending"
    /\ \A u \in 1..(t - 1) : futs[u] # "pending"
    /\ Cardinality({u \in Tasks : futs[u] = "running"}) < workers
    /\ futs' = [futs EXCEPT ![t] = "running"]
    /\ UNCHANGED <<items, workers, fail_fast, seen, results, pool_errors, ppc,
                   pres>>
    /\ UNCHANGED nonPoolVars

\* fn(item) returns or raises
TaskFinish(t, ok) ==
    /\ ppc \in {"collect", "exit"}
    /\ futs[t] = "running"
    /\ futs' = [futs EXCEPT ![t] = IF ok THEN "ok" ELSE "failed"]
    /\ UNCHANGED <<items, workers, fail_fast, seen, results, pool_errors, ppc,
                   pres>>
    /\ UNCHANGED nonPoolVars

\* 20-30 altered: a failure under fail_fast breaks the loop and cancels
\* nothing
PoolCollectNoCancel(t) ==
    /\ ppc = "collect"
    /\ t \notin seen
    /\ futs[t] \in {"ok", "failed"}
    /\ seen' = seen \cup {t}
    /\ IF futs[t] = "ok"
       THEN /\ results' = [results EXCEPT ![t] = fn(items[t])]
            /\ ppc' = IF seen' = Tasks THEN "exit" ELSE "collect"
            /\ UNCHANGED <<pool_errors, futs>>
       ELSE /\ pool_errors' = Append(pool_errors, t)
            /\ ppc' = IF fail_fast \/ seen' = Tasks THEN "exit" ELSE "collect"
            /\ UNCHANGED <<results, futs>>
    /\ UNCHANGED <<items, workers, fail_fast, pres>>
    /\ UNCHANGED nonPoolVars

\* 20-30: one turn of `for fut in as_completed(fut_map)`: the result is
\* stored at the index of its item; an exception is recorded and, under
\* fail_fast, every future that is not done is cancelled (a running one
\* cannot be) and the loop is left
PoolCollect(t) ==
    /\ ppc = "collect"
    /\ t \notin seen
    /\ futs[t] \in {"ok", "failed"}
    /\ seen' = seen \cup {t}
    /\ IF futs[t] = "ok"
       THEN /\ results' = [results EXCEPT ![t] = fn(items[t])]
            /\ ppc' = IF seen' = Tasks THEN "exit" ELSE "collect"
            /\ UNCHANGED <<pool_errors, futs>>
       ELSE /\ pool_errors' = Append(pool_errors, t)
            /\ futs' = IF fail_fast
                       THEN [u \in Tasks |-> IF futs[u] = "pending"
                                             THEN "cancelled" ELSE futs[u]]
                       ELSE futs
            /\ ppc' = IF fail_fast \/ seen' = Tasks THEN "exit" ELSE "collect"
            /\ UNCHANGED results
    /\ UNCHANGED <<items, workers, fail_fast, pres>>
    /\ UNCHANGED nonPoolVars

\* 30-36: the executor is shut down with wait=True, then the first error
\* is raised, or the results are returned
PoolExit ==
    /\ ppc = "exit"
    /\ \A t \in Tasks : futs[t] \notin {"pending", "running"}
    /\ ppc' = "done"
    /\ pres' = IF pool_errors # <<>>
               THEN [kind |-> "raised", value |-> <<pool_errors[1]>>]
               ELSE [kind |-> "returned", value |-> results]
    /\ UNCHANGED <<items, workers, fail_fast, futs, seen, results, pool_errors>>
    /\ UNCHANGED nonPoolVars

PoolNext ==
    \/ \E t \in Tasks : TaskStart(t)
    \/ \E t \in Tasks, ok \in BOOLEAN : TaskFinish(t, ok)
    \/ \E t \in Tasks : PoolCollect(t)
    \/ PoolExit


\* the step before run(): temp_output_dir may hold what an earlier run of
\* the step left, final_output_dir what an earlier run delivered
InitProcess ==
    /\ atomic_rename \in BOOLEAN
    /\ max_attempts \in Attempts
    /\ marker_file \in BOOLEAN
    /\ tmp_out \in [Files -> {0, Earlier}]
    /\ final_out \in [Files -> {0, Earlier}]
    /\ final0 = final_out
    /\ attempt = 1
    /\ xpc = "start"
    /\ xresult = None

\* _check_success (190-217) with success.marker_file the first file of
\* final_output_dir: the marker is a required file
check_success(marker, dir) == marker => dir[1] # 0

\* 2447-2458: temp_output_dir is emptied, once, before the attempts
ProcessStart ==
    /\ xpc = "start"
    /\ tmp_out' = EmptyDir
    /\ xpc' = "attempt"
    /\ UNCHANGED <<atomic_rename, max_attempts, marker_file, final_out, final0,
                   attempt, xresult>>
    /\ UNCHANGED nonProcessVars

\* 2477-2565: one attempt; the command writes the files W into
\* AETHERFLOW_OUTPUT_DIR and ends with an accepted exit code ("ok"), with
\* one of retry_on_exit_codes or a timeout under retry_on_timeout ("retry"),
\* or with another exit code or timeout ("fatal")
ProcessAttempt(W, rc) ==
    /\ xpc = "attempt"
    /\ tmp_out' = [f \in Files |-> IF f \in W THEN attempt ELSE tmp_out[f]]
    /\ CASE rc = "ok" ->
              /\ xpc' = "finalize"
              /\ UNCHANGED <<attempt, xresult>>
         [] rc = "retry" /\ attempt < max_attempts ->
              /\ attempt' = attempt + 1
              /\ UNCHANGED <<xpc, xresult>>
         [] OTHER ->
              /\ xpc' = "done"
              /\ xresult' = "raised"
              /\ UNCHANGED attempt
    /\ UNCHANGED <<atomic_rename, max_attempts, marker_file, final_out, final0>>
    /\ UNCHANGED nonProcessVars

\* 2567-2608: temp_output_dir becomes final_output_dir, by a rename over the
\* removed final_output_dir or by moving each item into it; the success
\* criteria are evaluated after that
ProcessFinalize ==
    /\ xpc = "finalize"
    /\ final_out' = IF atomic_rename THEN tmp_out
                    ELSE [f \in Files |-> IF tmp_out[f] # 0 THEN tmp_out[f]
                                          ELSE final_out[f]]
    /\ tmp_out' = EmptyDir
    /\ xresult' = IF check_success(marker_file, final_out')
                  THEN "returned" ELSE "raised"
    /\ xpc' = "done"
    /\ UNCHANGED <<atomic_rename, max_attempts, marker_file, final0, attempt>>
    /\ UNCHANGED nonProcessVars

ProcessNext ==
    \/ ProcessStart
    \/ \E W \in SUBSET Files, rc \in {"ok", "retry", "fatal"} :
           ProcessAttempt(W, rc)
    \/ ProcessFinalize


InitEntry ==
    /\ e_arg \in FlowNames
    /\ e_entry \in FlowNames \cup {""}
    /\ e_remote \in [FlowNames -> Contents]
    /\ e_local \in [FlowNames -> Contents]
    /\ epc = "start"
    /\ e_validated = NoDoc
    /\ e_loaded = NoDoc

\* the entry of the manifest, else the flow_yaml argument (runner.py 350-355)
executed_name(entry, arg) == IF entry # "" THEN entry ELSE arg

\* the remote bundle is published again
EntryPublish ==
    /\ epc \in {"start", "validated"}
    /\ \E n \in FlowNames : \E c \in Contents :
           /\ e_remote[n] # c
           /\ e_remote' = [e_remote EXCEPT ![n] = c]
    /\ UNCHANGED <<e_arg, e_entry, e_local, epc, e_validated, e_loaded>>
    /\ UNCHANGED nonEntryVars

\* runner.py 275-280: validate_flow_yaml; build_env_snapshot syncs the bundle
\* (env_snapshot.py 56-66) and the flow_yaml argument is read below the
\* bundle root (validation.py 657-663)
EntryValidate ==
    /\ epc = "start"
    /\ e_local' = e_remote
    /\ e_validated' = Doc(e_arg, e_local'[e_arg])
    /\ epc' = "validated"
    /\ UNCHANGED <<e_arg, e_entry, e_remote, e_loaded>>
    /\ UNCHANGED nonEntryVars

\* runner.py 303-365: the second sync_bundle, the choice of the file and
\* its load
EntryLoad ==
    /\ epc = "validated"
    /\ e_local' = e_remote
    /\ e_loaded' = Doc(executed_name(e_entry, e_arg),
                       e_local'[executed_name(e_entry, e_arg)])
    /\ epc' = "loaded"
    /\ UNCHANGED <<e_arg, e_entry, e_remote, e_validated>>
    /\ UNCHANGED nonEntryVars

EntryNext == EntryPublish \/ EntryValidate \/ EntryLoad

Init ==
    /\ InitRunner(Scenarios)
    /\ InitBundle({EmptyTree}, {[strict_fingerprint |-> FALSE,
                                 fetch_policy |-> "cache_check",
                                 entry_flow |-> 0, advertise |-> "none"]})
    /\ InitLocks
    /\ ConnAtRest
    /\ SandboxAtRest
    /\ ResolveAtRest
    /\ WLAtRest
    /\ AuxAtRest
Next == RunnerNext
Spec == Init /\ [][Next]_vars

\* the bundle synchronizer, with the run executor at rest
InitB ==
    /\ InitRunner({<<MkFlow("none", FALSE, 0, 0, FALSE, {}, ClosedStatuses), 0>>})
    /\ InitBundle(Remotes, Manifests)
    /\ InitLocks
    /\ ConnAtRest
    /\ SandboxAtRest
    /\ ResolveAtRest
    /\ WLAtRest
    /\ AuxAtRest
NextB == BundleNext
SpecBundle == InitB /\ [][NextB]_vars

\* the owners of TTL locks, with the executor and the synchronizer at rest
InitL ==
    /\ InitRunner({<<MkFlow("none", FALSE, 0, 0, FALSE, {}, ClosedStatuses), 0>>})
    /\ InitBundle({EmptyTree}, {[strict_fingerprint |-> FALSE,
                                 fetch_policy |-> "cache_check",
                                 entry_flow |-> 0, advertise |-> "none"]})
    /\ InitLocks
    /\ ConnAtRest
    /\ SandboxAtRest
    /\ ResolveAtRest
    /\ WLAtRest
    /\ AuxAtRest
NextL == LockNext
SpecLocks == InitL /\ [][NextL]_vars

\* the threads of run contexts that get connectors, with the rest at rest
InitC ==
    /\ InitRunner({<<MkFlow("none", FALSE, 0, 0, FALSE, {}, ClosedStatuses), 0>>})
    /\ InitBundle({EmptyTree}, {[strict_fingerprint |-> FALSE,
                                 fetch_policy |-> "cache_check",
                                 entry_flow |-> 0, advertise |-> "none"]})
    /\ InitLocks
    /\ InitConn
    /\ SandboxAtRest
    /\ ResolveAtRest
    /\ WLAtRest
    /\ AuxAtRest
NextC == ConnNext
SpecConn == InitC /\ [][NextC]_vars

\* flows whose jobs end SUCCESS, SKIPPED and FAILED, for the cleanup policies
CleanupScenarios ==
    {<<MkFlow("chain", TRUE, 0, 1, FALSE, {}, ClosedStatuses), 0>>,
     <<MkFlow("chain", TRUE, 1, 1, FALSE, {}, ClosedStatuses), 0>>,
     <<MkFlow("none", FALSE, 1, 0, FALSE, {}, ClosedStatuses), 1>>}

\* the run executor under every workspace.cleanup_policy
InitD ==
    /\ InitRunnerWith(CleanupScenarios, CleanupPolicies)
    /\ InitBundle({EmptyTree}, {[strict_fingerprint |-> FALSE,
                                 fetch_policy |-> "cache_check",
                                 entry_flow |-> 0, advertise |-> "none"]})
    /\ InitLocks
    /\ ConnAtRest
    /\ SandboxAtRest
    /\ ResolveAtRest
    /\ WLAtRest
    /\ AuxAtRest
NextD == RunnerNext
SpecCleanup == InitD /\ [][NextD]_vars

\* the steps that resolve user paths, with the rest at rest
InitS ==
    /\ InitRunner({<<MkFlow("none", FALSE, 0, 0, FALSE, {}, ClosedStatuses), 0>>})
    /\ InitBundle({EmptyTree}, {[strict_fingerprint |-> FALSE,
                                 fetch_policy |-> "cache_check",
                                 entry_flow |-> 0, advertise |-> "none"]})
    /\ InitLocks
    /\ ConnAtRest
    /\ InitSandbox
    /\ ResolveAtRest
    /\ WLAtRest
    /\ AuxAtRest
NextS == SandboxNext
SpecSandbox == InitS /\ [][NextS]_vars

\* validation, resolution and materialization of a resource, with the rest
\* at rest
InitR ==
    /\ InitRunner({<<MkFlow("none", FALSE, 0, 0, FALSE, {}, ClosedStatuses), 0>>})
    /\ InitBundle({EmptyTree}, {[strict_fingerprint |-> FALSE,
                                 fetch_policy |-> "cache_check",
                                 entry_flow |-> 0, advertise |-> "none"]})
    /\ InitLocks
    /\ ConnAtRest
    /\ SandboxAtRest
    /\ InitResolve
    /\ WLAtRest
    /\ AuxAtRest
NextR == ResolveNext
SpecResolve == InitR /\ [][NextR]_vars

\* runs whose with_lock steps share a state store, with the rest at rest
InitW ==
    /\ InitRunner({<<MkFlow("none", FALSE, 0, 0, FALSE, {}, ClosedStatuses), 0>>})
    /\ InitBundle({EmptyTree}, {[strict_fingerprint |-> FALSE,
                                 fetch_policy |-> "cache_check",
                                 entry_flow |-> 0, advertise |-> "none"]})
    /\ InitLocks
    /\ ConnAtRest
    /\ SandboxAtRest
    /\ ResolveAtRest
    /\ WLAtRest
    /\ AuxAtRest
NextW == WLNext
SpecWithLock == InitW /\ [][NextW]_vars

\* run_flow's validation and load of the flow, with the rest at rest
InitE ==
    /\ InitRunner({<<MkFlow("none", FALSE, 0, 0, FALSE, {}, ClosedStatuses), 0>>})
    /\ InitBundle({EmptyTree}, {[strict_fingerprint |-> FALSE,
                                 fetch_policy |-> "cache_check",
                                 entry_flow |-> 0, advertise |-> "none"]})
    /\ InitLocks
    /\ ConnAtRest
    /\ SandboxAtRest
    /\ ResolveAtRest
    /\ WLAtRest
    /\ InitEntry
    /\ ProcessAtRest
    /\ PoolAtRest
NextE == EntryNext
SpecEntry == InitE /\ [][NextE]_vars

\* an external.process step, with the rest at rest
InitX ==
    /\ InitRunner({<<MkFlow("none", FALSE, 0, 0, FALSE, {}, ClosedStatuses), 0>>})
    /\ InitBundle({EmptyTree}, {[strict_fingerprint |-> FALSE,
                                 fetch_policy |-> "cache_check",
                                 entry_flow |-> 0, advertise |-> "none"]})
    /\ InitLocks
    /\ ConnAtRest
    /\ SandboxAtRest
    /\ ResolveAtRest
    /\ WLAtRest
    /\ EntryAtRest
    /\ InitProcess
    /\ PoolAtRest
NextX == ProcessNext
SpecProcess == InitX /\ [][NextX]_vars

\* one call of run_thread_pool, with the rest at rest
InitP ==
    /\ InitRunner({<<MkFlow("none", FALSE, 0, 0, FALSE, {}, ClosedStatuses), 0>>})
    /\ InitBundle({EmptyTree}, {[strict_fingerprint |-> FALSE,
                                 fetch_policy |-> "cache_check",
                                 entry_flow |-> 0, advertise |-> "none"]})
    /\ InitLocks
    /\ ConnAtRest
    /\ SandboxAtRest
    /\ ResolveAtRest
    /\ WLAtRest
    /\ EntryAtRest
    /\ ProcessAtRest
    /\ InitPool
NextP == PoolNext
SpecPool == InitP /\ [][NextP]_vars

\* flows whose jobs end SUCCESS, SKIPPED, BLOCKED and FAILED and whose steps
\* may return a StepResult with a status of their own
StatusScenarios ==
    {<<MkFlow("chain", TRUE, 1, 1, FALSE, {}, ClosedStatuses \cup {STEP_OTHER}), 0>>,
     <<MkFlow("chain", TRUE, 0, 1, FALSE, {}, ClosedStatuses \cup {STEP_OTHER}), 0>>,
     <<MkFlow("none", FALSE, 0, 0, FALSE, {}, ClosedStatuses \cup {STEP_OTHER}), 1>>}

\* the run executor over steps that return any status
InitT ==
    /\ InitRunner(StatusScenarios)
    /\ InitBundle({EmptyTree}, {[strict_fingerprint |-> FALSE,
                                 fetch_policy |-> "cache_check",
                                 entry_flow |-> 0, advertise |-> "none"]})
    /\ InitLocks
    /\ ConnAtRest
    /\ SandboxAtRest
    /\ ResolveAtRest
    /\ WLAtRest
    /\ AuxAtRest
NextT == RunnerNext
SpecStatus == InitT /\ [][NextT]_vars

\* ------------------------------------------------------------ properties
\* run() of the current step raised in this run
StepRaised == step \in Steps /\ <<job, step>> \in ran /\ raw_out = NoRaw
\* an exception left the try block of the current job
FailedInJob == raising /\ job \in Jobs /\ job \in begun
\* step s of job j has on_no_data = skip_job, ran in this run and returned
\* SKIPPED
SkipTrigger(j, s) ==
    /\ flow.on_no_data[j][s] = "skip_job"
    /\ <<j, s>> \in ran
    /\ <<j, s>> \in step_writes
    /\ step_runs[run_id][j][s] = STEP_SKIPPED

C3_NoReExecution ==
    /\ reran = {}
    /\ pc \in {"ran", "recorded"} => step_runs[run_id][job][step] \notin ClosedStatuses

\* a second run has passed over a step persisted by the first
C3_Witness ==
    /\ runs = 2 /\ pc = "steps" /\ step = 2 /\ job \in begun /\ ~skip_rest
    /\ <<job, 1>> \notin ran
    /\ step_runs[run_id][job][1] \in ClosedStatuses

\* C4 as stated: once a step with on_no_data = skip_job has returned SKIPPED,
\* no later step of the job executes, the job does not fail, and when the run
\* is over the job's status is SKIPPED.
C4_Original ==
    \A j \in Jobs, s \in Steps :
        SkipTrigger(j, s) =>
            /\ \A t \in Steps : t > s => <<j, t>> \notin ran
            /\ statuses[j] # JOB_FAILED
            /\ pc = "done" => statuses[j] = JOB_SKIPPED

\* C4 amended: once a step with on_no_data = skip_job has returned SKIPPED,
\* every later step of the job is marked SKIPPED without being executed, its
\* output carrying the step's reason (or the default reason), and the job
\* ends SKIPPED with the run going on -- unless rendering the declared
\* outputs of the skipping step raises, which happens before the
\* short-circuit is looked at and fails the job.
C4_SkipJob ==
    \A j \in Jobs, s \in Steps :
        SkipTrigger(j, s) =>
            /\ \A t \in Steps : t > s =>
                /\ <<j, t>> \notin ran
                /\ <<j, t>> \in step_writes => step_runs[run_id][j][t] = STEP_SKIPPED
                /\ (j = job /\ pc = "steps" /\ t < step) =>
                    /\ <<j, t>> \in step_writes
                    /\ step_outputs[t] =
                         [has_data |-> None, skipped |-> TRUE,
                          reason |-> IF step_outputs[s].reason # None
                                     THEN step_outputs[s].reason
                                     ELSE DefaultSkipReason]
            /\ statuses[j] \in {None, JOB_SKIPPED, JOB_FAILED}
            /\ statuses[j] = JOB_FAILED =>
                    job = j /\ step = s /\ flow.outputs[j][s] /\ raw_out # NoRaw
                    /\ raw_out.has_data = None
            /\ statuses[j] = JOB_SKIPPED =>
                    /\ job_runs[run_id][j] = JOB_SKIPPED
                    /\ job_ctx[j].skip_reason # None
                    /\ \A t \in Steps : t > s => <<j, t>> \in step_writes
            /\ (job > j \/ pc \in {"finally", "done"}) =>
                    statuses[j] \in {JOB_SKIPPED, JOB_FAILED}

C4_Witness ==
    /\ pc = "done" /\ result = "returned"
    /\ \E j \in Jobs :
        /\ SkipTrigger(j, 1)
        /\ statuses[j] = JOB_SKIPPED
        /\ \A t \in Steps : t > 1 => <<j, t>> \in step_writes /\ <<j, t>> \notin ran

\* C5 as stated: no output is in the step-outputs map while the status of
\* its step is not persisted.
C5_Original ==
    \A s \in Steps :
        (job \in Jobs /\ step_outputs[s] # NoOut) =>
            step_runs[run_id][job][s] \in ClosedStatuses

\* C5 amended: the output is put into the step-outputs map first and the
\* status persisted right after; whenever a later step, the job's end or the
\* failure handler looks at the map, every output in it has its step's
\* status persisted.  Only the step that has just returned may be in the map
\* without a status.
C5_PersistedBeforeNextStep ==
    \A s \in Steps :
        (job \in Jobs /\ step_outputs[s] # NoOut) =>
            \/ step_runs[run_id][job][s] \in ClosedStatuses /\ <<job, s>> \in step_writes
            \/ pc = "recorded" /\ s = step

C5_Witness ==
    /\ pc = "steps" /\ step = 2 /\ ~skip_rest
    /\ <<job, 1>> \in ran
    /\ step_outputs[1] # NoOut
    /\ step_runs[run_id][job][1] \in ClosedStatuses

C7_FailRaises ==
    /\ StepRaised => pc \in {"failed", "finally", "done"}
    /\ pc = "failed" => job \in begun
    /\ (pc \in {"finally", "done"} /\ (StepRaised \/ FailedInJob)) =>
        /\ statuses[job] = JOB_FAILED
        /\ job_runs[run_id][job] = JOB_FAILED
        /\ raising
        /\ pc = "done" => result = "raised"
        /\ \A k \in Jobs : k > job => k \notin started /\ k \notin job_writes

C7_Witness ==
    /\ pc = "done" /\ result = "raised" /\ StepRaised
    /\ job < NJobs /\ flow_job = 0
    /\ job_runs[run_id][job] = JOB_FAILED

\* C8 as stated: after a run in which a step raised, the persisted status of
\* the step and of its job are both FAILED.
C8_Original ==
    (pc = "done" /\ StepRaised) =>
        /\ job_runs[run_id][job] = JOB_FAILED
        /\ step_runs[run_id][job][step] = "FAILED"

\* C8 amended: a step failure marks its job FAILED; the step itself gets no
\* status (there is no FAILED step status), and the exception propagates
\* after the connectors were closed.
C8_JobFailedStepUnrecorded ==
    (pc = "done" /\ StepRaised) =>
        /\ job_runs[run_id][job] = JOB_FAILED
        /\ step_runs[run_id][job][step] = None
        /\ <<job, step>> \notin step_writes
        /\ result = "raised"
        /\ run_cache = <<>> /\ closed = opened

C8_Witness ==
    /\ pc = "done" /\ StepRaised /\ result = "raised"
    /\ opened # {} /\ closed = opened

\* C9: when run_flow returns or raises, close() has been called on every
\* connector the run cached and the run cache is empty, also when some
\* close() raised.
C9_CloseAll ==
    (pc = "done" /\ result \in {"returned", "raised"}) =>
        run_cache = <<>> /\ closed = opened

C9_Witness ==
    /\ pc = "done" /\ result \in {"returned", "raised"}
    /\ Cardinality(opened) = NResources /\ close_raised # {} /\ close_raised # opened
    /\ closed = opened

\* C10: from the moment a sync has created its staging directory until the
\* first rename of the swap, and from then on if the sync is killed or fails
\* in that stretch, active/ holds exactly what it held when the sync
\* started.
C10_ActiveUntouched ==
    phase = "staging" =>
        /\ active_dir = active0
        /\ bpc \in {"stage", "entry", "rm_old", "rename_old", "promote_new",
                    "except", "done"}
        /\ bpc = "done" => bresult.kind # None

\* a sync over an existing active/ is killed with a different tree staged
C10_Witness ==
    /\ bresult.kind = "killed" /\ phase = "staging"
    /\ active0 # NoDir /\ active_dir = active0
    /\ tmp_dir # NoDir /\ tmp_dir # EmptyTree /\ tmp_dir # active_dir

\* ---- C11
\* the latest sync ran to its end, and the sync before it was killed after
\* active/ had been renamed to active.old and before active.old was deleted
RetryEnded ==
    /\ swap_kill > 0
    /\ syncs = swap_kill + 1
    /\ bpc = "done"
    /\ bresult.kind \in {"returned", "raised"}

\* C11 (as claimed): a sync killed between the rename of active/ to
\* active.old and the deletion of active.old is recovered by the retried
\* sync, which ends with active/ present and whole: the promoted new tree
\* or the previous tree rolled back from active.old
C11_Original ==
    RetryEnded =>
        /\ active_dir # NoDir
        /\ \A f \in Files : active_dir[f] # Torn
        /\ bresult.kind = "raised" => active_dir = old_dir

\* ---- C12
\* C12: a fetched file whose hash differs from the advertised sha256 aborts
\* the sync: it never returns changed=true, and active/ and latest.json are
\* what they were when the sync started
C12_MismatchAborts ==
    error = "mismatch" =>
        /\ bpc \in {"except", "done"}
        /\ active_dir = active0
        /\ latest = latest0
        /\ bresult.kind = "returned" => ~bresult.changed

\* a sync over an existing active/ ended on a checksum mismatch
C12_Witness ==
    /\ error = "mismatch"
    /\ bpc = "done"
    /\ bresult.kind = "raised"
    /\ active0 # NoDir
    /\ latest0 # NoFp

\* ---- C13
\* C13 (as claimed): a sync that failed anywhere, listing and hashing
\* included, has written last_error.json; it returned the stale bundle
\* (changed=false) when allow_stale was asked for and active/ exists, and
\* raised otherwise
C13_Original ==
    (bpc = "done" /\ error # None /\ bresult.kind # "killed") =>
        /\ last_error
        /\ IF allow_stale /\ active_dir # NoDir
           THEN bresult.kind = "returned" /\ ~bresult.changed
           ELSE bresult.kind = "raised"

\* ---- C14
\* the sync before the current one returned a synchronized bundle and the
\* source is what it was then
SourceUnchanged ==
    last_sync.ok /\ last_sync.remote = remote /\ last_sync.rsig = rsig
\* this step is the return of the current sync
SyncReturns == bpc # "done" /\ bpc' = "done" /\ bresult'.kind = "returned"

\* C14 (as claimed): a sync that follows a successful one with the source
\* unchanged returns changed=false and fetched_files=[] and leaves active/
\* as it was
C14_Original ==
    [][(SourceUnchanged /\ SyncReturns) =>
           /\ ~bresult'.changed
           /\ bresult'.fetched = {}
           /\ active_dir' = active0
           /\ phase' = "listed"]_vars

\* C14 (amended): so it is unless fetch_policy is always; under always the
\* sync stages and swaps again and, when nothing fails, returns
\* changed=true with fetched_files=[] and an active/ of the same content
C14_UnchangedSecondSync ==
    [][(SourceUnchanged /\ SyncReturns) =>
           IF manifest.fetch_policy # "always"
           THEN /\ ~bresult'.changed
                /\ bresult'.fetched = {}
                /\ bresult'.fingerprint = latest0
                /\ active_dir' = active0
                /\ phase' = "listed"
                /\ error' = None
           ELSE error' = None =>
                    /\ bresult'.changed
                    /\ bresult'.fetched = {}
                    /\ active_dir' = active0]_vars

\* the second of two syncs of a source that never changed returned
\* changed=false without staging
C14_Witness ==
    /\ syncs = 2
    /\ changes = 0
    /\ bpc = "done"
    /\ bresult.kind = "returned"
    /\ ~bresult.changed
    /\ bresult.fetched = {}
    /\ error = None
    /\ phase = "listed"
    /\ active_dir # NoDir
    /\ active_dir = active0

\* ---- C15
\* since the sync before the current one, which returned a synchronized
\* bundle, the content of file f and of no other file was replaced
OneContentChange(f) ==
    /\ last_sync.ok
    /\ last_sync.remote[f] # 0 /\ remote[f] # 0
    /\ last_sync.remote[f] # remote[f]
    /\ \A g \in Files \ {f} :
           last_sync.remote[g] = remote[g] /\ last_sync.rsig[g] = rsig[g]

\* C15 (as claimed): the sync after such a change computes another
\* fingerprint and returns changed=true with fetched_files = [f]
C15_Original ==
    [][\A f \in Files :
          (OneContentChange(f) /\ SyncReturns /\ error' = None) =>
              /\ bresult'.changed
              /\ bresult'.fingerprint # latest0
              /\ bresult'.fetched = {f}]_vars

\* C15 (amended): fetched_files names no other file. When the listing shows
\* the change (sha256 advertised, strict_fingerprint, or another size or
\* mtime) the fingerprint differs and the sync returns changed=true, with
\* fetched_files = [f] if f has no sha256 and strict_fingerprint is off, and
\* [] under strict_fingerprint without advertised sha256; when it does not,
\* the fingerprint is the same and, unless fetch_policy is always, the sync
\* returns changed=false and keeps the old active/
C15_OneFileChange ==
    [][\A f \in Files :
          (OneContentChange(f) /\ SyncReturns /\ error' = None) =>
              LET noadv == adv[f] = NoSha
                  strict == manifest.strict_fingerprint
                  sigch == rsig[f] # last_sync.rsig[f]
                  visible == ~noadv \/ strict \/ sigch
              IN  /\ bresult'.fetched \subseteq {f}
                  /\ visible => /\ bresult'.changed
                                /\ bresult'.fingerprint # latest0
                  /\ (noadv /\ ~strict /\ sigch) => bresult'.fetched = {f}
                  /\ (noadv /\ strict) => bresult'.fetched = {}
                  /\ ~visible => bresult'.fingerprint = latest0
                  /\ (~visible /\ manifest.fetch_policy # "always") =>
                         /\ ~bresult'.changed
                         /\ active_dir' = active0]_vars

\* a sync returned changed=true having fetched exactly the one file whose
\* content was replaced after the sync before it
C15_Witness ==
    /\ syncs = 2
    /\ changes = 1
    /\ bpc = "done"
    /\ bresult.kind = "returned"
    /\ bresult.changed
    /\ error = None
    /\ active0 # NoDir
    /\ \E f \in Files :
           /\ bresult.fetched = {f}
           /\ active0[f] # 0 /\ remote[f] # 0
           /\ active0[f] # remote[f]
           /\ active_dir[f] = remote[f]
           /\ \A g \in Files \ {f} : active_dir[g] = active0[g]

\* ---- C16
\* owner o holds key k: its latest successful acquisition is neither
\* released nor expired
Holds(o, k) == grants[o][k] > clock
\* this step is the sweep, or the insert, of owner o's acquire_lock
SweepStep(o) == lpc[o] = "sweep" /\ lpc'[o] = "insert"
InsertStep(o) == lpc[o] = "insert" /\ lpc'[o] = "idle"

\* C16: under any interleaving at most one owner holds a key, and its row
\* is in the table as it was inserted; an acquire sweeps every row that had
\* expired when it was called and no row that has not expired, inserts its
\* row if the key has none, and returns false without changing the row of a
\* key whose row has not expired
C16_TtlLocks ==
    /\ [](\A k \in Keys : \A o1, o2 \in Owners :
              (Holds(o1, k) /\ Holds(o2, k)) => o1 = o2)
    /\ [](\A k \in Keys : \A o \in Owners :
              Holds(o, k) =>
                  locks[k] = [owner |-> o, expires_at |-> grants[o][k]])
    /\ [][\A o \in Owners :
            /\ SweepStep(o) =>
                   \A k \in Keys :
                      /\ locks'[k] # NoRow => locks'[k].expires_at > lnow[o]
                      /\ locks[k].expires_at > clock => locks'[k] = locks[k]
            /\ InsertStep(o) =>
                   IF locks[lkey[o]] = NoRow
                   THEN /\ lret'[o] = "True"
                        /\ locks' = [locks EXCEPT ![lkey[o]] =
                               [owner |-> o, expires_at |-> lexp[o]]]
                   ELSE /\ lret'[o] = "False"
                        /\ locks' = locks]_vars

\* an owner was refused a key that another owner holds, after a row that
\* had expired was swept
C16_Witness ==
    \E o1, o2 \in Owners : \E k \in Keys :
        /\ o1 # o2
        /\ Holds(o1, k)
        /\ lpc[o2] = "idle" /\ lkey[o2] = k /\ lret[o2] = "False"
        /\ clock > 0
        /\ locks[k].expires_at > MaxTtl

\* ---- C17
\* the instances get has built for resource name n under policy process
ProcessInsts(n) ==
    {i \in 1..Len(insts) : insts[i].name = n /\ insts[i].branch = "process"}
\* this step is the return of a get of thread t under policy process
ProcessReturnStep(t) == gpc[t] \in {"locked", "create"} /\ gpc'[t] = "idle"
\* this step is a run's close_all
CloseAllStep == conn_run' # conn_run

\* C17: for every resource name at most one instance is ever built under
\* policy process, and it stays in the process-wide map; every get under
\* policy process, from any thread in any run, returns that instance; a
\* run's close_all neither closes it nor removes it from the map
C17_ProcessCache ==
    /\ [](\A n \in Names : \A i \in ProcessInsts(n) : PROCESS_CACHE[n] = i)
    /\ [][\A t \in Threads :
            ProcessReturnStep(t) =>
                /\ gret'[t] # 0
                /\ {i \in 1..Len(insts') :
                       /\ insts'[i].name = gname[t]
                       /\ insts'[i].branch = "process"} = {gret'[t]}]_vars
    /\ [][CloseAllStep =>
            /\ PROCESS_CACHE' = PROCESS_CACHE
            /\ \A n \in Names : \A i \in ProcessInsts(n) :
                  insts'[i] = insts[i]]_vars

\* in a second run two threads were returned the instance that was built
\* under policy process in the first run, still open
C17_Witness ==
    \E i \in 1..Len(insts) :
        /\ insts[i].branch = "process" /\ insts[i].run = 1 /\ insts[i].open
        /\ conn_run = 2
        /\ \A t \in Threads : gpc[t] = "idle" /\ gret[t] = i

\* ---- C18
\* this step resolves the policy of a get of thread t
ResolveStep(t) == gpc[t] = "idle" /\ gpc'[t] = "policy"
\* this step is the return of a get of thread t
ReturnStep(t) == gpc[t] # "idle" /\ gpc'[t] = "idle"
\* this step builds a new instance and returns it to thread t, and stores
\* nothing in the run cache or the process cache
FreshStep(t) ==
    /\ Len(insts') = Len(insts) + 1
    /\ gret'[t] = Len(insts')
    /\ mgr_run_cache' = mgr_run_cache
    /\ PROCESS_CACHE' = PROCESS_CACHE

C19_Precedence ==
    [][\A t \in Threads :
         ResolveStep(t) =>
            /\ gcache'[t] # "" => gpol'[t] = gcache'[t]
            /\ (gcache'[t] = "" /\ ~settings.connector_cache_disabled) =>
                  gpol'[t] =
                     CASE resources[gname'[t]] = "run" -> "run"
                       [] resources[gname'[t]] = "NONE" -> "none"
                       [] settings.connector_cache_default = "process" ->
                              "process"
                       [] OTHER -> "run"]_vars

\* the kill switch is off, the resource declares run and the default is
\* process: one get with cache=none has resolved to none and one get
\* without override has resolved to run
C19_Witness ==
    /\ ~settings.connector_cache_disabled
    /\ settings.connector_cache_default = "process"
    /\ \E t1, t2 \in Threads :
          /\ resources[gname[t1]] = "run" /\ resources[gname[t2]] = "run"
          /\ gpc[t1] = "policy" /\ gcache[t1] = "none" /\ gpol[t1] = "none"
          /\ gpc[t2] = "policy" /\ gcache[t2] = "" /\ gpol[t2] = "run"

\* ---- C20
\* C20 as stated: every instance that a get under policy none built during
\* a run that has ended is closed
C20_Original ==
    \A i \in 1..Len(insts) :
        (insts[i].branch = "none" /\ insts[i].run < conn_run) =>
            ~insts[i].open

\* ---- C21
\* this step instantiates the current step and invokes its run()
StepRunStep == pc = "steps" /\ pc' \in {"ran", "failed"}

\* C21 as stated: whenever a step executes, in a fresh or in a resumed run,
\* the steps map it is rendered against holds the output of every prior
\* step of its job
C21_Original ==
    [][StepRunStep => \A s \in 1..(step - 1) : step_outputs[s] # NoOut]_vars

\* ---- C22
\* C22 as stated: when a job has passed its depends_on gate, in a fresh or
\* in a resumed run, the outputs it observes under jobs.<dep>.outputs are,
\* for every declared dependency, what that dependency's steps have
\* promoted under this run_id
C22_Original ==
    (Gated /\ flow.depends_on[job] # {}) =>
        \A d \in flow.depends_on[job] : job_ctx[d].has_data = promoted[d]

\* ---- C23
\* the job the loop has reached passed its depends_on gate and its when
\* evaluates false, and the process is not killed in this step
WhenFalseStep ==
    /\ Gated
    /\ safe_eval_when(flow.when[job], job_ctx) = "false"
    /\ pc' # "done"

\* C23: a job whose when evaluates false gets status SKIPPED, in the run and
\* in the state store, with skip_reason condition=false; none of its steps
\* is executed; the loop goes on with the next job
C23_WhenFalseSkips ==
    /\ [][WhenFalseStep =>
            /\ statuses'[job] = JOB_SKIPPED
            /\ job_runs'[run_id][job] = JOB_SKIPPED
            /\ job_ctx'[job].status = JOB_SKIPPED
            /\ job_ctx'[job].skip_reason = "condition=false"
            /\ ran' = ran /\ begun' = begun /\ step_runs' = step_runs
            /\ pc' = "jobs" /\ job' = job + 1]_vars
    /\ [](\A j \in Jobs :
            (job_ctx[j].status = JOB_SKIPPED
                /\ job_ctx[j].skip_reason = "condition=false") =>
                    /\ j \notin begun
                    /\ \A st \in Steps : <<j, st>> \notin ran)

\* a run has returned in which a job was skipped because its when was
\* false, after the job it depends on had ended SUCCESS
C23_Witness ==
    /\ pc = "done" /\ result = "returned"
    /\ \E j \in Jobs :
          /\ flow.when[j] # 0
          /\ statuses[flow.when[j]] = JOB_SUCCESS
          /\ statuses[j] = JOB_SKIPPED
          /\ job_runs[run_id][j] = JOB_SKIPPED
          /\ job_ctx[j].skip_reason = "condition=false"

\* ---- C24
\* this step ends the current job: its steps are done, or it failed
JobEndStep == pc = "steps" /\ pc' = "jobs"
JobFailStep == pc = "failed" /\ pc' = "finally"

\* C24 as stated: on job end the job directory is removed if and only if
\* cleanup_policy is always, or it is on_success and the job ended SUCCESS
C24_Original ==
    [][(JobEndStep \/ JobFailStep) =>
         (job \notin job_dirs' <=>
             \/ cleanup_policy = "always"
             \/ cleanup_policy = "on_success"
                   /\ statuses'[job] = JOB_SUCCESS)]_vars

\* C24: on job end the job directory, which exists, is removed if and only
\* if cleanup_policy is always, or it is on_success and the job did not
\* fail (it ended SUCCESS, or SKIPPED by a step's skip_job); under
\* on_success with a failed job, and under never, it is preserved; the
\* directories of other jobs are left alone
C24_Cleanup ==
    [][(JobEndStep \/ JobFailStep) =>
         /\ job \in job_dirs
         /\ statuses'[job] \in {JOB_SUCCESS, JOB_SKIPPED, JOB_FAILED}
         /\ job \notin job_dirs' <=>
               \/ cleanup_policy = "always"
               \/ cleanup_policy = "on_success"
                     /\ statuses'[job] \in {JOB_SUCCESS, JOB_SKIPPED}
         /\ job_dirs' \ {job} = job_dirs \ {job}]_vars

\* under on_success a job that ended SUCCESS has lost its directory and the
\* job after it, which failed, has kept its own
C24_Witness ==
    /\ cleanup_policy = "on_success"
    /\ pc = "done" /\ result = "raised"
    /\ \E j1, j2 \in Jobs :
          /\ statuses[j1] = JOB_SUCCESS /\ j1 \in begun /\ j1 \notin job_dirs
          /\ statuses[j2] = JOB_FAILED /\ j2 \in begun /\ j2 \in job_dirs

\* ---- C25
\* the latest run of a valid flow is over: it returned, or it raised
RunOver ==
    /\ runs > 0 /\ pc = "done" /\ result \in {"returned", "raised"}
    /\ validate_flow_yaml(flow).ok

\* C25 as stated: every run that is over, whether it returned or raised,
\* has emitted its run_summary, and no job or step lifecycle event of the
\* run came after the run_summary
C25_Original ==
    /\ summary # "followed"
    /\ RunOver => summary = "emitted"

\* ---- C26
\* C26 as stated: with the sandbox on, resolving a user path that goes
\* through a symbolic link raises, wherever the link points
C26_Original ==
    (env_sandbox /\ resolved.kind # "none" /\ followed) =>
        resolved.kind = "raise"

C28_Original ==
    /\ (/\ resource.decode
        /\ Len(resource.raw) > 1
        /\ \E i \in 1..Len(resource.raw) : resource.raw[i] = Tok
        /\ env_T # "") =>
           /\ report.kind = "report" =>
                 \E i \in 1..Len(report.errors) :
                     report.errors[i].msg[1] = UNSUPPORTED_MSG
           /\ res_out.kind # "none" =>
                 /\ res_out.kind = "raise"
                 /\ res_out.msg[1] = UNSUPPORTED_MSG
    /\ (/\ resource.decode
        /\ resource.raw = <<Tok>>
        /\ env_T # ""
        /\ set_envs = "full") =>
           /\ report.kind = "report" =>
                 \A i \in 1..Len(report.errors) :
                     report.errors[i].code # "template:syntax"
           /\ res_out.kind # "none" =>
                 res_out = Returned([dec |-> TRUE, text |-> <<env_T>>], FALSE)

\* C28: when decode marks a value that concatenates a template token with
\* literal text, validation reports a template:syntax error whose message is
\* the decode-target message, and a run fails before any job; resolve_resource
\* raises ResolverSyntaxError beginning with the fixed template-syntax message
\* when a secrets module with expand_env and decode is given, and with no
\* secrets module returns the rendered value unchanged with a warning; a
\* standalone token is accepted and decoded after rendering
C28_DecodeConcat ==
    /\ (/\ resource.decode
        /\ Len(resource.raw) > 1
        /\ \E i \in 1..Len(resource.raw) : resource.raw[i] = Tok) =>
           /\ report.kind = "report" =>
                 /\ \E i \in 1..Len(report.errors) :
                        report.errors[i] = [code |-> "template:syntax",
                                            msg |-> <<DecodeTargetMsg>>]
                 /\ \A i \in 1..Len(report.errors) :
                        report.errors[i].msg[1] # UNSUPPORTED_MSG
           /\ flow_out.kind # "none" => flow_out.kind = "raise"
           /\ (res_out.kind # "none" /\ env_T # "" /\ set_envs = "full") =>
                 /\ res_out.kind = "raise"
                 /\ res_out.exc = "ResolverSyntaxError"
                 /\ res_out.msg[1] = UNSUPPORTED_MSG
           /\ (res_out.kind # "none" /\ env_T # "" /\ set_envs = "none") =>
                 res_out = Returned([dec |-> FALSE,
                                     text |-> [i \in 1..Len(resource.raw) |->
                                                  IF resource.raw[i] = Tok
                                                  THEN env_T ELSE "Bearer "]],
                                    TRUE)
    /\ (/\ resource.decode
        /\ resource.raw = <<Tok>>
        /\ env_T # ""
        /\ set_envs = "full") =>
           /\ report.kind = "report" =>
                 \A i \in 1..Len(report.errors) :
                     report.errors[i].code # "template:syntax"
           /\ res_out.kind # "none" =>
                 res_out = Returned([dec |-> TRUE, text |-> <<env_T>>], FALSE)

C28_Witness ==
    /\ resource.decode
    /\ resource.raw = <<Lit, Tok>>
    /\ env_T = "abc"
    /\ set_envs = "full"
    /\ report.kind = "report"
    /\ res_out.kind = "raise"
    /\ flow_out.kind = "raise"

\* C29 as stated: when decode marks a value and the configured secrets
\* module does not export decode, resolution does not fail: the rendered
\* value is returned unchanged and a warning is emitted
C29_Original ==
    (/\ resource.decode
     /\ set_envs = "no_decode"
     /\ env_T # ""
     /\ res_out.kind # "none") =>
        res_out = Returned(Render(resource.raw), TRUE)

\* C30 as stated: with a manifest of mode enterprise and zip_drivers
\* {pyzipper, zipfile}, a flow with a resource of kind archive and driver
\* external is rejected at validation: the report has an error and no job
\* starts
C30_Original ==
    (/\ manifest_mode = "enterprise"
     /\ zip_drivers = {"pyzipper", "zipfile"}
     /\ resource.kind = "archive"
     /\ resource.driver = "external") =>
        /\ report.kind = "report" => report.errors # <<>>
        /\ flow_out.kind # "started"

\* C31 as stated: a run gets past validation only if every depends_on entry
\* of every job names a job declared strictly earlier; an unknown job, a
\* later job and the job itself are all rejected before any job runs
C31_Original ==
    pc = "jobs" =>
        \A j \in Jobs : \A d \in flow.depends_on[j] : d \in Jobs /\ d < j

\* C32: a with_lock step whose lock is not acquired raises without running
\* its inner step; the inner step runs only after acquire_lock returned
\* true; and once the step is left, whether the inner step returned or
\* raised, the table holds no row of that run
C32_WithLock ==
    \A o \in Owners :
        /\ wres[o] = "not_acquired" => (wpc[o] = "out" /\ ~winner[o])
        /\ wpc[o] = "inner" => lret[o] = "True"
        /\ winner[o] => lret[o] = "True"
        /\ wpc[o] = "out" => \A k \in Keys : locks[k].owner # o

\* one run left its with_lock by an exception of the inner step, and another
\* was refused the lock
C32_Witness ==
    \E o1, o2 \in Owners :
        /\ wpc[o1] = "out" /\ wres[o1] = "raised" /\ winner[o1]
        /\ wpc[o2] = "out" /\ wres[o2] = "not_acquired"

\* C38 as stated: two with_lock steps with the same lock_key never run their
\* inner steps at overlapping times, whatever the duration and the ttl; and
\* the release of a with_lock removes no row of another run
C38_Original ==
    /\ [](\A o1, o2 \in Owners :
             (o1 # o2 /\ wpc[o1] = "inner" /\ wpc[o2] = "inner") =>
                 wkey[o1] # wkey[o2])
    /\ [][\A o \in Owners :
             (wpc[o] = "finally" /\ wpc'[o] = "out") =>
                 \A k \in Keys :
                     (locks[k] # NoRow /\ locks[k].owner # o) =>
                         locks'[k] = locks[k]]_vars

\* C33 as stated: once a step with on_no_data=skip_job is persisted as
\* SKIPPED under a run_id, no later step of its job executes under that
\* run_id, in the same run or in a resumed one, and the job never ends
\* SUCCESS
C33_Original ==
    /\ [][StepRunStep =>
            ~\E s \in 1..(step - 1) :
                /\ flow.on_no_data[job][s] = "skip_job"
                /\ step_runs[run_id][job][s] = STEP_SKIPPED]_vars
    /\ [](\A r \in RunIds : \A j \in Jobs :
             job_runs[r][j] = JOB_SUCCESS =>
                 ~\E s \in Steps :
                     /\ flow.on_no_data[j][s] = "skip_job"
                     /\ step_runs[r][j][s] = STEP_SKIPPED)

\* C34 as stated: the document a run loads and executes is the document its
\* validation read, the same file with the same content
C34_Original ==
    epc = "loaded" => e_loaded = e_validated

\* the tree dir is the one the fingerprint fp describes: the files fp lists
\* are the files of dir, and a file fp lists with a sha256 has that content
DescribedBy(fp, dir) ==
    /\ dir # NoDir
    /\ fp # NoFp
    /\ \A f \in Files :
           /\ (fp[2][f] = <<>>) <=> (dir[f] = 0)
           /\ (Len(fp[2][f]) = 2 /\ fp[2][f][1] = "sha256") =>
                  sha256_bytes(dir[f]) = fp[2][f]

\* C35 as stated: whenever sync_bundle returns a result with a fingerprint,
\* changed or unchanged or stale, active/ holds the tree that fingerprint
\* describes, and when it reports unchanged latest.json describes active/
C35_Original ==
    [][SyncReturns =>
           /\ bresult'.fingerprint # NoFp =>
                  DescribedBy(bresult'.fingerprint, active_dir')
           /\ (~bresult'.changed /\ latest' # NoFp) =>
                  DescribedBy(latest', active_dir')]_vars

\* C36 as stated: once a sync of the bundle has succeeded (latest.json is
\* written), active/ exists at every instant and holds a complete tree, no
\* file of it torn, also while a later sync is swapping
C36_Original ==
    latest # NoFp =>
        /\ active_dir # NoDir
        /\ \A f \in Files : active_dir[f] # Torn

\* C37 as stated, for the default atomic_rename: with strategy atomic_dir, a
\* step that raises leaves final_output_dir as it found it, and a step that
\* returns leaves in it only files its successful attempt wrote
C37_Original ==
    (xpc = "done" /\ atomic_rename) =>
        /\ xresult = "raised" => final_out = final0
        /\ xresult = "returned" =>
               \A f \in Files : final_out[f] \in {0, attempt}

\* C39 as stated: every status in job_runs is SUCCESS, FAILED, BLOCKED or
\* SKIPPED and every status in step_runs is SUCCESS or SKIPPED, whatever the
\* steps return
C39_Original ==
    \A r \in RunIds : \A j \in Jobs :
        /\ job_runs[r][j] \in {None, JOB_SUCCESS, JOB_FAILED, JOB_BLOCKED,
                               JOB_SKIPPED}
        /\ \A s \in Steps : step_runs[r][j][s] \in {None} \cup ClosedStatuses

\* this step is ctx.state.set_step_status after a step has run
PersistStep == pc = "recorded" /\ pc' = "persisted"

\* C39: every status in job_runs is RUNNING, SUCCESS, FAILED, BLOCKED or
\* SKIPPED; the status written for a step that ran is the status of what it
\* returned, as it is (SUCCESS for a plain dict), so every status in
\* step_runs is SUCCESS, SKIPPED or a status a step of the flow returns
C39_Statuses ==
    /\ [](\A r \in RunIds : \A j \in Jobs :
             /\ job_runs[r][j] \in {None, JOB_RUNNING, JOB_SUCCESS, JOB_FAILED,
                                    JOB_BLOCKED, JOB_SKIPPED}
             /\ \A s \in Steps :
                    step_runs[r][j][s] \in
                        {None} \cup ClosedStatuses \cup flow.step_status)
    /\ [][PersistStep =>
            /\ step_runs'[run_id][job][step] = raw_out.status
            /\ raw_out.kind = "dict" => raw_out.status = STEP_SUCCESS]_vars

\* a job is RUNNING and a step of it is persisted with a status outside the
\* closed set
C39_Witness ==
    /\ pc = "persisted"
    /\ job_runs[run_id][job] = JOB_RUNNING
    /\ step_runs[run_id][job][step] = STEP_OTHER

\* this step is a thread of the executor starting a task
TaskStartStep == \E t \in Tasks : futs[t] = "pending" /\ futs'[t] = "running"

====
